---- MODULE Spec2Model ----
(***************************************************************************)
(* Model of the Mermaid diagram app (src/src/mcp-app.tsx): the session     *)
(* controller's event handlers, renderMermaid with its in-flight flag, the *)
(* opaque rendering engine as a nondeterministic environment, and the      *)
(* structural repair fixSubgraphCycles as a character-level operator.      *)
(***************************************************************************)
EXTENDS Integers, Sequences, FiniteSets, TLC

(***************************************************************************)
(* Text.  A text is a sequence of one-character strings.                   *)
(***************************************************************************)
UpperCase ==
  << "A","B","C","D","E","F","G","H","I","J","K","L","M",
     "N","O","P","Q","R","S","T","U","V","W","X","Y","Z" >>

LowerCase ==
  << "a","b","c","d","e","f","g","h","i","j","k","l","m",
     "n","o","p","q","r","s","t","u","v","w","x","y","z" >>

DigitChars == {"0","1","2","3","4","5","6","7","8","9"}

Letters == 1..Len(UpperCase)

\* the case folding of the regular expressions' i flag
ToLower(c) ==
  IF \E i \in Letters : UpperCase[i] = c
    THEN LowerCase[CHOOSE i \in Letters : UpperCase[i] = c]
    ELSE c

\* \w of a regular expression
IsWordChar(c) ==
  \/ \E i \in Letters : c = UpperCase[i] \/ c = LowerCase[i]
  \/ c \in DigitChars
  \/ c = "_"

\* \s of a regular expression
IsSpace(c) == c \in {" ", "\t", "\n", "\r"}

\* !syntax.trim()
IsBlank(s) == \A i \in 1..Len(s) : IsSpace(s[i])

\* syntax.split('\n')
RECURSIVE SplitLines(_)
SplitLines(s) ==
  IF \A i \in 1..Len(s) : s[i] # "\n"
    THEN << s >>
    ELSE LET k == CHOOSE i \in 1..Len(s) :
                    s[i] = "\n" /\ \A j \in 1..(i-1) : s[j] # "\n"
         IN  << SubSeq(s, 1, k-1) >> \o SplitLines(SubSeq(s, k+1, Len(s)))

\* lines.join('\n')
RECURSIVE JoinLines(_)
JoinLines(ls) ==
  IF Len(ls) = 0 THEN << >>
  ELSE IF Len(ls) = 1 THEN ls[1]
  ELSE ls[1] \o << "\n" >> \o JoinLines(Tail(ls))

\* the first position at or after i that holds no whitespace (Len+1 if none)
SkipSpaces(line, i) ==
  IF \E j \in i..Len(line) : ~IsSpace(line[j])
    THEN CHOOSE j \in i..Len(line) :
           ~IsSpace(line[j]) /\ \A k \in i..(j-1) : IsSpace(line[k])
    ELSE Len(line) + 1

\* the last position of the run of non-whitespace that starts at i
EndOfToken(line, i) ==
  IF \E j \in i..Len(line) : IsSpace(line[j])
    THEN (CHOOSE j \in i..Len(line) :
            IsSpace(line[j]) /\ \A k \in i..(j-1) : ~IsSpace(line[k])) - 1
    ELSE Len(line)

\* the literal word occurs in line at position p (ci: case-insensitively)
MatchAt(line, p, word, ci) ==
  /\ p >= 1
  /\ p + Len(word) - 1 <= Len(line)
  /\ \A k \in 1..Len(word) :
       IF ci THEN ToLower(line[p+k-1]) = ToLower(word[k])
             ELSE line[p+k-1] = word[k]

SubgraphKeyword == << "s","u","b","g","r","a","p","h" >>

\* /^\s*subgraph\s/i.test(line)
IsSubgraphDecl(line) ==
  LET p == SkipSpaces(line, 1)
  IN  /\ MatchAt(line, p, SubgraphKeyword, TRUE)
      /\ p + Len(SubgraphKeyword) <= Len(line)
      /\ IsSpace(line[p + Len(SubgraphKeyword)])

\* line.match(/^\s*subgraph\s+(\S+)/i): the captured name, << >> when no match
SubgraphId(line) ==
  LET p == SkipSpaces(line, 1)
      q == SkipSpaces(line, p + Len(SubgraphKeyword))
  IN  IF IsSubgraphDecl(line) /\ q <= Len(line)
        THEN SubSeq(line, q, EndOfToken(line, q))
        ELSE << >>

SeqRange(s) == { s[i] : i \in 1..Len(s) }

\* Set.add in insertion order
AddOnce(s, x) == IF x \in SeqRange(s) THEN s ELSE Append(s, x)

\* the names of the subgraph declarations, in order of first appearance
RECURSIVE CollectSubgraphIds(_, _)
CollectSubgraphIds(lines, acc) ==
  IF Len(lines) = 0 THEN acc
  ELSE CollectSubgraphIds(Tail(lines),
         IF SubgraphId(lines[1]) # << >>
           THEN AddOnce(acc, SubgraphId(lines[1]))
           ELSE acc)

EdgeArrows ==
  { << "-","-",">" >>, << "-","-","o" >>, << "-","-","x" >>,
    << "-",".","-",">" >>, << "=","=",">" >> }

ShapeOpeners == { "[", "(", "{", ">" }

\* the prefix alternatives (?:^|\s|-->|--o|--x|-\.->|==>|\|[^|]*\|\s*) end at p-1
NodePrefixAt(line, p) ==
  \/ p = 1
  \/ p > 1 /\ IsSpace(line[p-1])
  \/ \E a \in EdgeArrows : MatchAt(line, p - Len(a), a, TRUE)
  \/ p > 2 /\ line[p-1] = "|" /\ \E q \in 1..(p-2) : line[q] = "|"

\* nodeDefPattern.test(line): sgId, then \s*, then a shape opener
NodeDefPattern(line, sgId) ==
  \E p \in 1..Len(line) :
    /\ MatchAt(line, p, sgId, TRUE)
    /\ NodePrefixAt(line, p)
    /\ LET r == SkipSpaces(line, p + Len(sgId))
       IN  r <= Len(line) /\ line[r] \in ShapeOpeners

\* the subgraph names that some non-declaration line defines as a node
RECURSIVE CollectCollisions(_, _, _)
CollectCollisions(lines, ids, acc) ==
  IF Len(lines) = 0 THEN acc
  ELSE LET line == lines[1]
           hit(k)  == NodeDefPattern(line, ids[k])
           RECURSIVE AddHits(_, _)
           AddHits(k, a) ==
             IF k > Len(ids) THEN a
             ELSE AddHits(k + 1, IF hit(k) THEN AddOnce(a, ids[k]) ELSE a)
       IN  CollectCollisions(Tail(lines), ids,
             IF IsSubgraphDecl(line) THEN acc ELSE AddHits(1, acc))

\* \b between positions i and i+1 of line
WordBoundary(line, i) ==
  LET l == i >= 1 /\ i <= Len(line) /\ IsWordChar(line[i])
      r == i + 1 >= 1 /\ i + 1 <= Len(line) /\ IsWordChar(line[i+1])
  IN  l # r

\* line.replace(new RegExp(`\\b${id}\\b`, 'g'), safeId), from position p on
RECURSIVE ReplaceFrom(_, _, _, _)
ReplaceFrom(line, p, id, safeId) ==
  IF p > Len(line) THEN << >>
  ELSE IF /\ MatchAt(line, p, id, FALSE)
          /\ WordBoundary(line, p - 1)
          /\ WordBoundary(line, p + Len(id) - 1)
    THEN safeId \o ReplaceFrom(line, p + Len(id), id, safeId)
    ELSE << line[p] >> \o ReplaceFrom(line, p + 1, id, safeId)

IdSuffix == << "_","s","v","c" >>

RenameInLine(line, id) ==
  IF IsSubgraphDecl(line) THEN line
  ELSE ReplaceFrom(line, 1, id, id \o IdSuffix)

\* one pass of the loop over the colliding names
RECURSIVE RenameAll(_, _)
RenameAll(fixed, collisions) ==
  IF Len(collisions) = 0 THEN fixed
  ELSE LET ls == SplitLines(fixed)
           renamed == [ i \in 1..Len(ls) |-> RenameInLine(ls[i], collisions[1]) ]
       IN  RenameAll(JoinLines(renamed), Tail(collisions))

fixSubgraphCycles(syntax) ==
  LET lines       == SplitLines(syntax)
      subgraphIds == CollectSubgraphIds(lines, << >>)
      collisions  == CollectCollisions(lines, subgraphIds, << >>)
  IN  IF Len(subgraphIds) = 0 THEN syntax
      ELSE IF Len(collisions) = 0 THEN syntax
      ELSE RenameAll(syntax, collisions)

(***************************************************************************)
(* Values.                                                                 *)
(***************************************************************************)
\* JavaScript's undefined and null, among strings
Undefined == "<undefined>"

Null == "<null>"

DocEmpty == << >>

DocBlank == << " " >>

\* A-->B
DocFlow == << "A","-","-",">","B" >>

\* subgraph A / A[x] / end : the node A collides with the subgraph A
DocCycle ==
  << "s","u","b","g","r","a","p","h"," ","A","\n",
     "A","[","x","]","\n","e","n","d" >>

\* the description texts the agent or the user supplies
Docs == { DocBlank, DocFlow, DocCycle }

\* A-->B / C[(x : a snapshot cut inside the shape of its last line
DocUnclosed == << "A","-","-",">","B","\n","C","[","(","x" >>

\* input.arguments of the final-input notifications: the text, with theme
\* and title absent or given
ToolInputs ==
  { [ mermaid |-> DocFlow,  theme |-> Undefined, title |-> "T" ],
    [ mermaid |-> DocCycle, theme |-> "forest",  title |-> Undefined ],
    [ mermaid |-> DocFlow,  theme |-> "dark",    title |-> Undefined ],
    [ mermaid |-> DocBlank, theme |-> "default", title |-> Undefined ] }

CheckpointIds == { Undefined, "cp1" }

\* result.structuredContent: the checkpoint and the theme the server echoes
ToolResults == [ checkpointId : CheckpointIds, theme : { "default", "dark" } ]

\* renderErr.message of a failed render: absent/empty, or a reason
EngineMessages == { "", "Parse error" }

AppMessages == { "transport error" }

\* the number of distinct values Date.now() takes in the element ids
NumIds == 1

Ids == 1..NumIds

\* useState<string>(""): no graphic
NoSvg == [ text |-> << >>, theme |-> "none" ]

\* the graphic mermaid.render returns for a text under the configured theme
Svg(text, cfg) == [ text |-> text, theme |-> cfg ]

\* the element mermaid.render works in: 'd' + id
OrphanId(id) == << "d", id >>

VARIABLES
  sysDark,               \* window.matchMedia('(prefers-color-scheme: dark)').matches
  hostDark,              \* useState(detectDarkMode)
  diagramState,          \* useState<DiagramState>
  agentCustomTheme,      \* agentCustomTheme / agentCustomThemeRef.current
  renderedSvg,           \* useState<string>("")
  error,                 \* useState<string | null>(null)
  isStreaming,           \* useState(false)
  displayMode,           \* useState<"inline" | "fullscreen">
  editedMermaid,         \* useState("")
  renderingRef,          \* renderingRef.current
  userSelectedThemeRef,  \* userSelectedThemeRef.current
  attempts,              \* the suspended invocations of renderMermaid
  engineTheme,           \* the configuration given to mermaid.initialize
  dom,                   \* the ids of the elements the engine left in the document
  last,                  \* history: the last event of a render attempt, of
                         \* the wheel or of an export
  finalDropped,          \* history: the last final input's render was skipped,
                         \* and no render has started since
  panZoom,               \* useState<PanZoomState>: the inline transform
  previewZoom,           \* useState(1): the zoom of the fullscreen preview
  previewPan,            \* useState({ x: 0, y: 0 }): the pan of the preview
  isPanningRef,          \* isPanningRef.current
  lastMousePosRef,       \* lastMousePosRef.current
  gestures,              \* history: the number of wheel and drag gestures so far
  syntaxIn,              \* a text given to fixSubgraphCycles on its own
  fixedOut,              \* what fixSubgraphCycles returned for syntaxIn
  viewport,              \* clientWidth and clientHeight of the viewport element
  autoFit,               \* the closure of the auto-fit effect: cancelled,
                         \* fitted, initialW/H, observer, fallback and the
                         \* pending check callbacks with lastW/H, stableFrames;
                         \* the pending check callbacks of the runs that
                         \* were cleaned up (stale, a set: their order does
                         \* not matter); history: the loops this
                         \* run started, the fits it applied, and whether a
                         \* callback of a cleaned-up run applied a fit
  frameLog,              \* history: the viewport sizes of the latest frames
                         \* in which a check callback of the current run ran
  isExporting,           \* useState(false)
  exportLog,             \* history: what the last export wrote to the console
  request,               \* the arguments of a create_view call
  response               \* the CallToolResult create_view returned

vars ==
  << sysDark, hostDark, diagramState, agentCustomTheme, renderedSvg, error,
     isStreaming, displayMode, editedMermaid, renderingRef,
     userSelectedThemeRef, attempts, engineTheme, dom, last, finalDropped,
     panZoom, previewZoom, previewPan, isPanningRef, lastMousePosRef,
     gestures, syntaxIn, fixedOut, viewport, autoFit, frameLog,
     isExporting, exportLog, request, response >>

\* the transforms of the two presentations and the state of a drag
viewVars ==
  << panZoom, previewZoom, previewPan, isPanningRef, lastMousePosRef,
     gestures >>

\* fixSubgraphCycles called on its own
repairVars == << syntaxIn, fixedOut >>

\* the auto-fit effect of the fullscreen presentation
fitVars == << viewport, autoFit, frameLog >>

\* handleExport
exportVars == << isExporting, exportLog >>

\* the create_view tool of the server
serverVars == << request, response >>

\* the sizes the host gives the viewport: inline, while expanding, expanded
ViewportSizes ==
  { [ w |-> 400, h |-> 300 ], [ w |-> 800, h |-> 300 ],
    [ w |-> 800, h |-> 600 ] }

\* the size of the viewport before the host expands it
InlineSize == [ w |-> 400, h |-> 300 ]

\* the auto-fit effect when it is not set up, or after its cleanup:
\* cancelled = true; fitted = true; the observer and the timeout are gone
NoEffect ==
  [ live |-> FALSE, fitted |-> TRUE, observing |-> FALSE, fallback |-> FALSE,
    initial |-> [ w |-> 0, h |-> 0 ], loops |-> << >>, stale |-> { },
    started |-> 0, fits |-> 0, lateFit |-> FALSE ]

\* the auto-fit effect set up: initialW/H captured, the observer observing,
\* the fallback timeout pending
StartEffect(size) ==
  [ live |-> TRUE, fitted |-> FALSE, observing |-> TRUE, fallback |-> TRUE,
    initial |-> size, loops |-> << >>, stale |-> { },
    started |-> 0, fits |-> 0, lateFit |-> FALSE ]

\* useEffect(..., [displayMode, renderedSvg, applyFitView]) after a change of
\* displayMode or renderedSvg: the cleanup of the last run, then the run.
\* The cleanup cancels no animation frame: the check callbacks the last run
\* had requested stay pending, with cancelled and fitted set in their closure
AutoFitEffect(mode, svg, size) ==
  LET run == IF mode = "fullscreen" /\ svg # NoSvg THEN StartEffect(size)
             ELSE NoEffect
  IN  [ run EXCEPT !.stale = autoFit.stale \cup SeqRange(autoFit.loops),
                   !.lateFit = autoFit.lateFit ]

FitInit ==
  /\ viewport = InlineSize
  /\ autoFit = NoEffect
  /\ frameLog = << >>

ExportInit ==
  /\ isExporting = FALSE
  /\ exportLog = "none"

\* no call of create_view yet; a call leaves << arguments >>, << result >>
ServerInit ==
  /\ request = << >>
  /\ response = << >>

\* a number n / d, kept in lowest terms
Rat(n, d) == << n, d >>

\* the transforms and the drag state after construction
ViewInit ==
  /\ panZoom = [ scale |-> Rat(1, 1), translateX |-> Rat(0, 1),
                 translateY |-> Rat(0, 1) ]
  /\ previewZoom = Rat(1, 1)
  /\ previewPan = [ x |-> Rat(0, 1), y |-> Rat(0, 1) ]
  /\ isPanningRef = FALSE
  /\ lastMousePosRef = [ x |-> 0, y |-> 0 ]
  /\ gestures = 0

\* no text has been given to fixSubgraphCycles on its own
RepairInit ==
  /\ syntaxIn = << >>
  /\ fixedOut = << >>

\* the state and refs of the render pipeline after construction
PipelineInit ==
  /\ sysDark \in BOOLEAN
  /\ hostDark = sysDark
  /\ diagramState = [ mermaid |-> DocEmpty,
                      theme |-> IF sysDark THEN "dark" ELSE "light",
                      title |-> Undefined,
                      checkpointId |-> Undefined ]
  /\ agentCustomTheme = Null
  /\ renderedSvg = NoSvg
  /\ error = Null
  /\ isStreaming = FALSE
  /\ displayMode = "inline"
  /\ editedMermaid = DocEmpty
  /\ renderingRef = FALSE
  /\ userSelectedThemeRef = FALSE
  /\ attempts = << >>
  /\ engineTheme = "default"
  /\ dom = { }
  /\ last = [ op |-> "init", kind |-> "-", note |-> "-" ]
  /\ finalDropped = FALSE

Init ==
  /\ PipelineInit
  /\ ViewInit
  /\ RepairInit
  /\ FitInit
  /\ ExportInit
  /\ ServerInit

(***************************************************************************)
(* renderMermaid.                                                          *)
(***************************************************************************)
\* the theme mermaid.initialize is given, custom being the agent's theme
EngineConfig(theme, custom) ==
  IF theme = "custom"
    THEN (IF custom # Null THEN custom ELSE "default")
    ELSE IF theme = "dark" THEN "base/dark" ELSE "base/light"

\* a variant of RenderOutcome that does not test the in-flight flag
RenderOutcomeNoFlag(syntax, cfgOk) ==
  IF IsBlank(syntax) THEN "blank"
  ELSE IF ~cfgOk THEN "config_error"
  ELSE "started"

\* a variant of RenderOutcome that tests the text without trimming it
RenderOutcomeNoTrim(syntax, cfgOk) ==
  IF syntax = << >> THEN "blank"
  ELSE IF renderingRef THEN "busy"
  ELSE IF ~cfgOk THEN "config_error"
  ELSE "started"

\* how far a call of renderMermaid gets before it first suspends
RenderOutcome(syntax, cfgOk) ==
  IF IsBlank(syntax) THEN "blank"
  ELSE IF renderingRef THEN "busy"
  ELSE IF ~cfgOk THEN "config_error"
  ELSE "started"

CallKind(isPartial) == IF isPartial THEN "partial" ELSE "final"

\* a variant of FirstAwait without the validate-only call
FirstAwaitRender(isPartial) == "render"

\* a variant of SafeSyntax that drops the final line of a partial text of
\* more than one line
SafeSyntaxDropsLastLine(syntax, isPartial) ==
  LET lines == SplitLines(syntax)
  IN  IF isPartial /\ Len(lines) > 1
        THEN fixSubgraphCycles(JoinLines(SubSeq(lines, 1, Len(lines) - 1)))
        ELSE fixSubgraphCycles(syntax)

\* the closing delimiter of an opening one, for the square, round and curly
\* families
CloserOf(c) == IF c = "[" THEN "]" ELSE IF c = "(" THEN ")" ELSE "}"

\* the closers still expected after a left-to-right scan of a line from
\* position p, innermost last: an opener pushes its closer, a closer that
\* matches the top pops it, any other closer is ignored
RECURSIVE ExpectedClosers(_, _, _)
ExpectedClosers(line, p, stack) ==
  IF p > Len(line) THEN stack
  ELSE IF line[p] \in { "[", "(", "{" }
    THEN ExpectedClosers(line, p + 1, Append(stack, CloserOf(line[p])))
  ELSE IF /\ line[p] \in { "]", ")", "}" }
          /\ stack # << >>
          /\ stack[Len(stack)] = line[p]
    THEN ExpectedClosers(line, p + 1, SubSeq(stack, 1, Len(stack) - 1))
  ELSE ExpectedClosers(line, p + 1, stack)

\* the closers a text's final line still expects
OpenAtEnd(text) ==
  LET lines == SplitLines(text)
  IN  IF lines = << >> THEN << >>
      ELSE ExpectedClosers(lines[Len(lines)], 1, << >>)

Reverse(s) == [ k \in 1..Len(s) |-> s[Len(s) + 1 - k] ]

\* a variant of SafeSyntax that closes what the final line of a partial text
\* of more than one line leaves open, innermost first
SafeSyntaxBalanced(syntax, isPartial) ==
  IF isPartial /\ Len(SplitLines(syntax)) > 1
    THEN fixSubgraphCycles(syntax) \o Reverse(OpenAtEnd(syntax))
    ELSE fixSubgraphCycles(syntax)

\* a variant of SafeSyntax that repairs the text of final attempts only
SafeSyntaxFinalOnly(syntax, isPartial) ==
  IF isPartial THEN syntax ELSE fixSubgraphCycles(syntax)

\* const safeSyntax = fixSubgraphCycles(syntax), whatever isPartial is
SafeSyntax(syntax, isPartial) == fixSubgraphCycles(syntax)

\* the call at which an attempt first suspends: if (isPartial) await
\* mermaid.parse(safeSyntax), else await mermaid.render(id, safeSyntax)
FirstAwait(isPartial) == IF isPartial THEN "parse" ELSE "render"

\* renderMermaid up to its first await: mermaid.parse for a partial attempt,
\* mermaid.render for a final one.
\* cfgOk = FALSE: mermaid.initialize throws and the finally releases the flag.
renderMermaid(syntax, theme, isPartial, custom, cfgOk) ==
  IF RenderOutcome(syntax, cfgOk) = "started"
    THEN /\ renderingRef' = TRUE
         /\ engineTheme' = EngineConfig(theme, custom)
         /\ attempts' = Append(attempts,
              [ syntax    |-> SafeSyntax(syntax, isPartial),
                raw       |-> syntax,
                theme     |-> theme,
                isPartial |-> isPartial,
                pc        |-> FirstAwait(isPartial) ])
         /\ last' = [ op |-> "started", kind |-> CallKind(isPartial),
                      note |-> "-" ]
    ELSE /\ UNCHANGED << renderingRef, attempts, engineTheme >>
         /\ last' = IF RenderOutcome(syntax, cfgOk) = "config_error"
                      THEN [ op |-> "config_error",
                             kind |-> CallKind(isPartial), note |-> "-" ]
                      ELSE last

\* history: the last final input's render was skipped, and no render has
\* started since
StillDropped(syntax, cfgOk) ==
  finalDropped /\ RenderOutcome(syntax, cfgOk) # "started"

RemoveAt(s, i) == SubSeq(s, 1, i-1) \o SubSeq(s, i+1, Len(s))

Kind(a) == CallKind(a.isPartial)

\* await mermaid.parse(safeSyntax) resolves: the attempt goes on to render
ParseOk(i) ==
  /\ i \in 1..Len(attempts)
  /\ attempts[i].pc = "parse"
  /\ attempts' = [ attempts EXCEPT ![i].pc = "render" ]
  /\ UNCHANGED << viewVars, repairVars, fitVars, exportVars, serverVars >>
  /\ UNCHANGED << sysDark, hostDark, diagramState, agentCustomTheme,
                  renderedSvg, error, isStreaming, displayMode, editedMermaid,
                  renderingRef, userSelectedThemeRef, engineTheme, dom,
                  finalDropped, last >>

\* a variant of ParseFail that returns without the finally
ParseFailKeepsFlag(i) ==
  /\ i \in 1..Len(attempts)
  /\ attempts[i].pc = "parse"
  /\ attempts' = RemoveAt(attempts, i)
  /\ renderingRef' = renderingRef
  /\ last' = [ op |-> "parse_fail", kind |-> Kind(attempts[i]), note |-> "-" ]
  /\ UNCHANGED << viewVars, repairVars, fitVars, exportVars, serverVars >>
  /\ UNCHANGED << sysDark, hostDark, diagramState, agentCustomTheme,
                  renderedSvg, error, isStreaming, displayMode, editedMermaid,
                  userSelectedThemeRef, engineTheme, dom, finalDropped >>

\* await mermaid.parse(safeSyntax) rejects: return, and the finally runs
ParseFail(i) ==
  /\ i \in 1..Len(attempts)
  /\ attempts[i].pc = "parse"
  /\ attempts' = RemoveAt(attempts, i)
  /\ renderingRef' = FALSE
  /\ last' = [ op |-> "parse_fail", kind |-> Kind(attempts[i]), note |-> "-" ]
  /\ UNCHANGED << viewVars, repairVars, fitVars, exportVars, serverVars >>
  /\ UNCHANGED << sysDark, hostDark, diagramState, agentCustomTheme,
                  renderedSvg, error, isStreaming, displayMode, editedMermaid,
                  userSelectedThemeRef, engineTheme, dom, finalDropped >>

\* a variant of RenderOk without setError(null)
RenderOkKeepsError(i) ==
  /\ i \in 1..Len(attempts)
  /\ attempts[i].pc = "render"
  /\ renderedSvg' = Svg(attempts[i].syntax, engineTheme)
  /\ attempts' = RemoveAt(attempts, i)
  /\ renderingRef' = FALSE
  /\ last' = [ op |-> "render_ok", kind |-> Kind(attempts[i]), note |-> "-" ]
  /\ autoFit' = AutoFitEffect(displayMode, renderedSvg', viewport)
  /\ frameLog' = << >>
  /\ viewport' = viewport
  /\ UNCHANGED << viewVars, repairVars, exportVars, serverVars >>
  /\ UNCHANGED << sysDark, hostDark, diagramState, agentCustomTheme, error,
                  isStreaming, displayMode, editedMermaid,
                  userSelectedThemeRef, engineTheme, dom, finalDropped >>

\* a variant of RenderOk that resets the fullscreen transform when it commits
RenderOkResetsView(i) ==
  /\ i \in 1..Len(attempts)
  /\ attempts[i].pc = "render"
  /\ renderedSvg' = Svg(attempts[i].syntax, engineTheme)
  /\ error' = Null
  /\ dom' = dom
  /\ attempts' = RemoveAt(attempts, i)
  /\ renderingRef' = FALSE
  /\ last' = [ op |-> "render_ok", kind |-> Kind(attempts[i]),
               note |-> IF error # Null THEN "cleared" ELSE "-" ]
  /\ autoFit' = AutoFitEffect(displayMode, renderedSvg', viewport)
  /\ frameLog' = << >>
  /\ viewport' = viewport
  /\ previewZoom' = Rat(1, 1)
  /\ previewPan' = [ x |-> Rat(0, 1), y |-> Rat(0, 1) ]
  /\ UNCHANGED << panZoom, isPanningRef, lastMousePosRef, gestures >>
  /\ UNCHANGED << repairVars, exportVars, serverVars >>
  /\ UNCHANGED << sysDark, hostDark, diagramState, agentCustomTheme,
                  isStreaming, displayMode, editedMermaid,
                  userSelectedThemeRef, engineTheme, finalDropped >>

\* await mermaid.render(id, safeSyntax) resolves (the engine has removed its
\* own working element): setRenderedSvg(svg); setError(null); finally
RenderOk(i) ==
  /\ i \in 1..Len(attempts)
  /\ attempts[i].pc = "render"
  /\ renderedSvg' = Svg(attempts[i].syntax, engineTheme)
  /\ error' = Null
  /\ dom' = dom
  /\ attempts' = RemoveAt(attempts, i)
  /\ renderingRef' = FALSE
  /\ last' = [ op |-> "render_ok", kind |-> Kind(attempts[i]),
               note |-> IF error # Null THEN "cleared" ELSE "-" ]
  /\ autoFit' = AutoFitEffect(displayMode, renderedSvg', viewport)
  /\ frameLog' = << >>
  /\ viewport' = viewport
  /\ UNCHANGED << viewVars, repairVars, exportVars, serverVars >>
  /\ UNCHANGED << sysDark, hostDark, diagramState, agentCustomTheme,
                  isStreaming, displayMode, editedMermaid,
                  userSelectedThemeRef, engineTheme, finalDropped >>

\* a variant of RemoveOrphan that looks the element up by the bare id
RemoveById(d, id) == d \ { << "", id >> }

\* document.getElementById('d' + id)?.remove()
RemoveOrphan(d, id) == d \ { OrphanId(id) }

\* a variant of ErrorText without the fallback text
ErrorTextRaw(msg) == msg

\* renderErr.message || "Failed to render diagram"
ErrorText(msg) == IF msg # "" THEN msg ELSE "Failed to render diagram"

\* a variant of ErrorAfterFailure that sets the error for every attempt
ErrorAfterAnyFailure(isPartial, msg, current) == ErrorText(msg)

\* if (!isPartial) setError(renderErr.message || "Failed to render diagram")
ErrorAfterFailure(isPartial, msg, current) ==
  IF isPartial THEN current ELSE ErrorText(msg)

\* what mermaid.render leaves in the document when it rejects: its working
\* element 'd' + id, if it had created it before failing
LeftByRender(d, id, created) ==
  IF created THEN d \cup { OrphanId(id) } ELSE d

\* await mermaid.render(id, safeSyntax) rejects: the catch block, then finally.
\* id is the `mermaid-${Date.now()}` of the attempt, which only this block reads
RenderFail(i, msg, created, id) ==
  /\ i \in 1..Len(attempts)
  /\ attempts[i].pc = "render"
  /\ dom' = RemoveOrphan(LeftByRender(dom, id, created), id)
  /\ error' = ErrorAfterFailure(attempts[i].isPartial, msg, error)
  /\ attempts' = RemoveAt(attempts, i)
  /\ renderingRef' = FALSE
  /\ last' = [ op |-> "render_fail", kind |-> Kind(attempts[i]),
               note |-> IF created THEN "orphan" ELSE "-" ]
  /\ UNCHANGED << viewVars, repairVars, fitVars, exportVars, serverVars >>
  /\ UNCHANGED << sysDark, hostDark, diagramState, agentCustomTheme,
                  renderedSvg, isStreaming, displayMode, editedMermaid,
                  userSelectedThemeRef, engineTheme, finalDropped >>

(***************************************************************************)
(* The session controller's handlers.                                      *)
(***************************************************************************)
\* a variant of OnToolInputPartial that attempts the snapshot
OnToolInputPartialRenders(snapshot) ==
  /\ isStreaming' = TRUE
  /\ renderMermaid(snapshot, diagramState.theme, TRUE, agentCustomTheme, TRUE)
  /\ UNCHANGED << viewVars, repairVars, fitVars, exportVars, serverVars >>
  /\ UNCHANGED << sysDark, hostDark, diagramState, agentCustomTheme,
                  renderedSvg, error, displayMode, editedMermaid,
                  userSelectedThemeRef, dom, finalDropped >>

\* a variant of OnToolInputPartial that records the snapshot as the diagram
OnToolInputPartialCommits(snapshot) ==
  /\ isStreaming' = TRUE
  /\ diagramState' = [ diagramState EXCEPT !.mermaid = snapshot ]
  /\ UNCHANGED << viewVars, repairVars, fitVars, exportVars, serverVars >>
  /\ UNCHANGED << sysDark, hostDark, agentCustomTheme, renderedSvg, error,
                  displayMode, editedMermaid, renderingRef,
                  userSelectedThemeRef, attempts, engineTheme, dom,
                  finalDropped, last >>

\* app.ontoolinputpartial: setIsStreaming(true); the snapshot is not read
OnToolInputPartial(snapshot) ==
  /\ isStreaming' = TRUE
  /\ UNCHANGED << viewVars, repairVars, fitVars, exportVars, serverVars >>
  /\ UNCHANGED << sysDark, hostDark, diagramState, agentCustomTheme,
                  renderedSvg, error, displayMode, editedMermaid,
                  renderingRef, userSelectedThemeRef, attempts, engineTheme,
                  dom, finalDropped, last >>

\* the theme app.ontoolinput derives from args.theme and detectDarkMode()
InputTheme(explicitTheme, isDark) ==
  IF explicitTheme = "dark" THEN "dark"
  ELSE IF explicitTheme \in { "forest", "neutral", "base" } THEN "custom"
  ELSE IF isDark THEN "dark" ELSE "light"

\* the agent's palette app.ontoolinput records
InputCustomTheme(explicitTheme) ==
  IF explicitTheme \in { "forest", "neutral", "base" } THEN explicitTheme
  ELSE Null

\* a variant of OnToolInput that patches the previous DiagramState
OnToolInputPatches(args, cfgOk) ==
  LET theme == InputTheme(args.theme, sysDark)
  IN  /\ isStreaming' = FALSE
      /\ userSelectedThemeRef' = FALSE
      /\ agentCustomTheme' = InputCustomTheme(args.theme)
      /\ diagramState' = [ diagramState EXCEPT !.mermaid = args.mermaid,
                                               !.theme = theme,
                                               !.title = args.title ]
      /\ editedMermaid' = args.mermaid
      /\ renderMermaid(args.mermaid, theme, FALSE,
                       InputCustomTheme(args.theme), cfgOk)
      /\ finalDropped' = (RenderOutcome(args.mermaid, cfgOk) = "busy")
      /\ UNCHANGED << viewVars, repairVars, fitVars, exportVars, serverVars >>
      /\ UNCHANGED << sysDark, hostDark, renderedSvg, error, displayMode,
                      dom >>

\* app.ontoolinput
OnToolInput(args, cfgOk) ==
  LET mermaidSyntax == args.mermaid
      explicitTheme == args.theme
      title         == args.title
      theme         == InputTheme(explicitTheme, sysDark)
  IN  /\ isStreaming' = FALSE
      /\ userSelectedThemeRef' = FALSE
      /\ agentCustomTheme' = InputCustomTheme(explicitTheme)
      /\ diagramState' = [ mermaid |-> mermaidSyntax,
                           theme |-> theme,
                           title |-> title,
                           checkpointId |-> Undefined ]
      /\ editedMermaid' = mermaidSyntax
      /\ renderMermaid(mermaidSyntax, theme, FALSE,
                       InputCustomTheme(explicitTheme), cfgOk)
      /\ finalDropped' = (RenderOutcome(mermaidSyntax, cfgOk) = "busy")
      /\ UNCHANGED << viewVars, repairVars, fitVars, exportVars, serverVars >>
      /\ UNCHANGED << sysDark, hostDark, renderedSvg, error, displayMode,
                      dom >>

\* a variant of OnToolResult that reports a result without a checkpoint
OnToolResultReportsMissing(structuredContent) ==
  /\ diagramState' =
       IF structuredContent.checkpointId # Undefined
         THEN [ diagramState EXCEPT
                  !.checkpointId = structuredContent.checkpointId ]
         ELSE diagramState
  /\ error' = IF structuredContent.checkpointId # Undefined
                THEN error ELSE "No checkpoint"
  /\ UNCHANGED << viewVars, repairVars, fitVars, exportVars, serverVars >>
  /\ UNCHANGED << sysDark, hostDark, agentCustomTheme, renderedSvg,
                  isStreaming, displayMode, editedMermaid, renderingRef,
                  userSelectedThemeRef, attempts, engineTheme, dom,
                  finalDropped, last >>

\* a variant of OnToolResult that merges the whole structured content
OnToolResultMergesContent(structuredContent) ==
  /\ diagramState' =
       IF structuredContent.checkpointId # Undefined
         THEN [ diagramState EXCEPT
                  !.checkpointId = structuredContent.checkpointId,
                  !.theme = structuredContent.theme ]
         ELSE diagramState
  /\ UNCHANGED << viewVars, repairVars, fitVars, exportVars, serverVars >>
  /\ UNCHANGED << sysDark, hostDark, agentCustomTheme, renderedSvg, error,
                  isStreaming, displayMode, editedMermaid, renderingRef,
                  userSelectedThemeRef, attempts, engineTheme, dom,
                  finalDropped, last >>

\* app.ontoolresult: of result.structuredContent only checkpointId is read
OnToolResult(structuredContent) ==
  /\ diagramState' =
       IF structuredContent.checkpointId # Undefined
         THEN [ diagramState EXCEPT
                  !.checkpointId = structuredContent.checkpointId ]
         ELSE diagramState
  /\ UNCHANGED << viewVars, repairVars, fitVars, exportVars, serverVars >>
  /\ UNCHANGED << sysDark, hostDark, agentCustomTheme, renderedSvg, error,
                  isStreaming, displayMode, editedMermaid, renderingRef,
                  userSelectedThemeRef, attempts, engineTheme, dom,
                  finalDropped, last >>

\* app.onteardown: logs, and returns {}
OnTeardown ==
  /\ UNCHANGED << viewVars, repairVars, fitVars, exportVars, serverVars >>
  /\ UNCHANGED << sysDark, hostDark, diagramState, agentCustomTheme,
                  renderedSvg, error, isStreaming, displayMode, editedMermaid,
                  renderingRef, userSelectedThemeRef, attempts, engineTheme,
                  dom, finalDropped, last >>

\* app.onerror
OnError(message) ==
  /\ error' = message
  /\ UNCHANGED << viewVars, repairVars, fitVars, exportVars, serverVars >>
  /\ UNCHANGED << sysDark, hostDark, diagramState, agentCustomTheme,
                  renderedSvg, isStreaming, displayMode, editedMermaid,
                  renderingRef, userSelectedThemeRef, attempts, engineTheme,
                  dom, finalDropped, last >>

\* a variant of SetHostDark whose effect does not look at
\* userSelectedThemeRef
SetHostDarkAlways(isDark, cfgOk) ==
  LET newTheme == IF isDark THEN "dark" ELSE "light"
      rerender == /\ isDark # hostDark
                  /\ diagramState.mermaid # DocEmpty
  IN  /\ hostDark' = isDark
      /\ IF rerender
           THEN /\ diagramState' = [ diagramState EXCEPT !.theme = newTheme ]
                /\ renderMermaid(diagramState.mermaid, newTheme, FALSE,
                                 agentCustomTheme, cfgOk)
                /\ finalDropped' = StillDropped(diagramState.mermaid, cfgOk)
           ELSE UNCHANGED << diagramState, renderingRef, attempts,
                             engineTheme, last, finalDropped >>
      /\ UNCHANGED << viewVars, repairVars, fitVars, exportVars, serverVars >>
      /\ UNCHANGED << agentCustomTheme, renderedSvg, error, isStreaming,
                      displayMode, editedMermaid, userSelectedThemeRef, dom >>

\* setHostDark(isDark), and the effect on [hostDark] when the value changed
SetHostDark(isDark, cfgOk) ==
  LET newTheme == IF isDark THEN "dark" ELSE "light"
      rerender == /\ isDark # hostDark
                  /\ ~userSelectedThemeRef
                  /\ diagramState.mermaid # DocEmpty
  IN  /\ hostDark' = isDark
      /\ IF rerender
           THEN /\ diagramState' = [ diagramState EXCEPT !.theme = newTheme ]
                /\ renderMermaid(diagramState.mermaid, newTheme, FALSE,
                                 agentCustomTheme, cfgOk)
                /\ finalDropped' = StillDropped(diagramState.mermaid, cfgOk)
           ELSE UNCHANGED << diagramState, renderingRef, attempts,
                             engineTheme, last, finalDropped >>
      /\ UNCHANGED << viewVars, repairVars, fitVars, exportVars, serverVars >>
      /\ UNCHANGED << agentCustomTheme, renderedSvg, error, isStreaming,
                      displayMode, editedMermaid, userSelectedThemeRef, dom >>

\* the system's colour scheme changes and the media query's change listener
\* runs: setHostDark(e.matches)
MediaQueryChange(cfgOk) ==
  /\ sysDark' = ~sysDark
  /\ SetHostDark(~sysDark, cfgOk)

\* app.onhostcontextchanged: setHostDark(detectDarkMode())
OnHostContextChanged(cfgOk) ==
  /\ sysDark' = sysDark
  /\ SetHostDark(sysDark, cfgOk)

\* the options of the theme select
ThemeOptions ==
  { "light", "dark" } \cup (IF agentCustomTheme # Null THEN { "custom" } ELSE { })

\* handleThemeChange, from the select of the fullscreen header
HandleThemeChange(newTheme, cfgOk) ==
  LET syntax == IF editedMermaid # DocEmpty THEN editedMermaid
                ELSE diagramState.mermaid
  IN  /\ displayMode = "fullscreen"
      /\ newTheme \in ThemeOptions
      /\ newTheme # diagramState.theme
      /\ userSelectedThemeRef' = TRUE
      /\ diagramState' = [ diagramState EXCEPT !.theme = newTheme ]
      /\ renderMermaid(syntax, newTheme, FALSE, agentCustomTheme, cfgOk)
      /\ finalDropped' = StillDropped(syntax, cfgOk)
      /\ UNCHANGED << viewVars, repairVars, fitVars, exportVars, serverVars >>
      /\ UNCHANGED << sysDark, hostDark, agentCustomTheme, renderedSvg, error,
                      isStreaming, displayMode, editedMermaid, dom >>

\* handleMermaidEdit, from the textarea of the fullscreen editor
HandleMermaidEdit(newSyntax, cfgOk) ==
  /\ displayMode = "fullscreen"
  /\ newSyntax # editedMermaid
  /\ editedMermaid' = newSyntax
  /\ renderMermaid(newSyntax, diagramState.theme, FALSE, agentCustomTheme,
                   cfgOk)
  /\ finalDropped' = StillDropped(newSyntax, cfgOk)
  /\ UNCHANGED << viewVars, repairVars, fitVars, exportVars, serverVars >>
  /\ UNCHANGED << sysDark, hostDark, diagramState, agentCustomTheme,
                  renderedSvg, error, isStreaming, displayMode,
                  userSelectedThemeRef, dom >>

\* handleFullscreenToggle
HandleFullscreenToggle ==
  /\ displayMode' = IF displayMode = "inline" THEN "fullscreen" ELSE "inline"
  /\ autoFit' = AutoFitEffect(displayMode', renderedSvg, viewport)
  /\ frameLog' = << >>
  /\ viewport' = viewport
  /\ UNCHANGED << viewVars, repairVars, exportVars, serverVars >>
  /\ UNCHANGED << sysDark, hostDark, diagramState, agentCustomTheme,
                  renderedSvg, error, isStreaming, editedMermaid,
                  renderingRef, userSelectedThemeRef, attempts, engineTheme,
                  dom, finalDropped, last >>

\* renderMermaid called with any arguments, a partial attempt included
CallRenderMermaid(syntax, theme, isPartial, cfgOk) ==
  /\ renderMermaid(syntax, theme, isPartial, agentCustomTheme, cfgOk)
  /\ finalDropped' = StillDropped(syntax, cfgOk)
  /\ UNCHANGED << viewVars, repairVars, fitVars, exportVars, serverVars >>
  /\ UNCHANGED << sysDark, hostDark, diagramState, agentCustomTheme,
                  renderedSvg, error, isStreaming, displayMode, editedMermaid,
                  userSelectedThemeRef, dom >>

(***************************************************************************)
(* Specifications.                                                         *)
(***************************************************************************)
\* the promise of mermaid.parse settles
EngineParse ==
  \/ \E i \in 1..Len(attempts) : ParseOk(i)
  \/ \E i \in 1..Len(attempts) : ParseFail(i)

\* the promise of mermaid.render settles
Engine ==
  \/ \E i \in 1..Len(attempts) : RenderOk(i)
  \/ \E i \in 1..Len(attempts), msg \in EngineMessages, created \in BOOLEAN,
        id \in Ids : RenderFail(i, msg, created, id)

\* the host's notifications of one tool invocation
Notifications ==
  \/ \E snapshot \in Docs : OnToolInputPartial(snapshot)
  \/ \E args \in ToolInputs, cfgOk \in BOOLEAN :
        OnToolInput(args, cfgOk)
  \/ OnTeardown

\* what the user and the system's colour scheme do
Triggers ==
  \/ \E cfgOk \in BOOLEAN : MediaQueryChange(cfgOk)
  \/ \E cfgOk \in BOOLEAN : OnHostContextChanged(cfgOk)
  \/ \E t \in { "light", "dark", "custom" }, cfgOk \in BOOLEAN :
        HandleThemeChange(t, cfgOk)
  \/ \E m \in Docs, cfgOk \in BOOLEAN :
        HandleMermaidEdit(m, cfgOk)
  \/ HandleFullscreenToggle

Next ==
  \/ Notifications
  \/ Triggers
  \/ Engine

\* the render pipeline under every trigger of a render
Spec == Init /\ [][Next]_vars

NextAttempt ==
  \/ EngineParse
  \/ Engine
  \/ \E m \in Docs \cup { DocUnclosed }, t \in { "light", "dark", "custom" },
        p \in BOOLEAN, cfgOk \in BOOLEAN : CallRenderMermaid(m, t, p, cfgOk)

\* renderMermaid as a function of its arguments: partial attempts too
SpecAttempt == Init /\ [][NextAttempt]_vars

NextSession ==
  \/ Notifications
  \/ \E r \in ToolResults : OnToolResult(r)
  \/ \E msg \in AppMessages : OnError(msg)
  \/ Engine

\* the session controller under the host's notifications alone
SpecSession == Init /\ [][NextSession]_vars

NextEdit ==
  \/ HandleFullscreenToggle
  \/ \E m \in Docs, cfgOk \in BOOLEAN : HandleMermaidEdit(m, cfgOk)
  \/ Engine

\* the editor of the fullscreen presentation: edits and their renders
SpecEdit == Init /\ [][NextEdit]_vars

(***************************************************************************)
(* fixSubgraphCycles called on its own, on documents made of a few lines.  *)
(***************************************************************************)
\* the lines the documents are made of
RepairLines ==
  { << "s","u","b","g","r","a","p","h"," ","A" >>,
    << "A","[","x","]" >>,
    << "e","n","d" >>,
    << "B","-","-","-","A","[","x","]" >>,
    << "s","u","b","g","r","a","p","h"," ","A","_","s","v","c" >>,
    << "B","-","-",">","A" >> }

\* the most lines a document is made of
MaxLines == 3

\* subgraph Analytics / Analytics[Analytics Service] / end
DocAnalytics ==
  JoinLines(<< << "s","u","b","g","r","a","p","h"," ","A","n","a","l","y","t","i","c","s" >>,
               << "A","n","a","l","y","t","i","c","s","[","A","n","a","l","y","t","i","c","s"," ","S","e","r","v","i","c","e","]" >>,
               << "e","n","d" >> >>)

\* subgraph A / subgraph A_svc / A[x] / A_svc[y] : two groupings, each with
\* a member of its own name
DocTwoGroups ==
  JoinLines(<< << "s","u","b","g","r","a","p","h"," ","A" >>,
               << "s","u","b","g","r","a","p","h"," ","A","_","s","v","c" >>,
               << "A","[","x","]" >>,
               << "A","_","s","v","c","[","y","]" >> >>)

\* the documents given to fixSubgraphCycles
RepairDocs ==
  { JoinLines(ls) : ls \in UNION { [ 1..n -> RepairLines ] : n \in 1..MaxLines } }
    \cup { DocAnalytics, DocTwoGroups }

\* a document is about to be given to fixSubgraphCycles
RepairStart ==
  /\ syntaxIn \in RepairDocs
  /\ fixedOut = << >>

InitRepair ==
  /\ PipelineInit
  /\ ViewInit
  /\ RepairStart
  /\ FitInit
  /\ ExportInit
  /\ ServerInit

\* fixed = fixSubgraphCycles(syntax)
CallFixSubgraphCycles ==
  /\ fixedOut = << >>
  /\ fixedOut' = fixSubgraphCycles(syntaxIn)
  /\ syntaxIn' = syntaxIn
  /\ UNCHANGED << viewVars, fitVars, exportVars, serverVars >>
  /\ UNCHANGED << sysDark, hostDark, diagramState, agentCustomTheme,
                  renderedSvg, error, isStreaming, displayMode, editedMermaid,
                  renderingRef, userSelectedThemeRef, attempts, engineTheme,
                  dom, finalDropped, last >>

\* the value returned is given to fixSubgraphCycles again
CallAgain ==
  /\ fixedOut # << >>
  /\ fixedOut # syntaxIn
  /\ syntaxIn' = fixedOut
  /\ fixedOut' = << >>
  /\ UNCHANGED << viewVars, fitVars, exportVars, serverVars >>
  /\ UNCHANGED << sysDark, hostDark, diagramState, agentCustomTheme,
                  renderedSvg, error, isStreaming, displayMode, editedMermaid,
                  renderingRef, userSelectedThemeRef, attempts, engineTheme,
                  dom, finalDropped, last >>

NextRepair ==
  \/ CallFixSubgraphCycles
  \/ CallAgain

\* the structural repair as a function of its argument
SpecRepair == InitRepair /\ [][NextRepair]_vars

(***************************************************************************)
(* The view transforms.  A number is a fraction n / d in lowest terms,     *)
(* d > 0, and the arithmetic on it is exact.                               *)
(***************************************************************************)
RECURSIVE GCD(_, _)
GCD(a, b) == IF b = 0 THEN a ELSE GCD(b, a % b)

Abs(n) == IF n < 0 THEN -n ELSE n

\* n / d in lowest terms, for d > 0
Norm(n, d) ==
  LET g == GCD(Abs(n), d)
  IN  IF n = 0 THEN Rat(0, 1) ELSE Rat(n \div g, d \div g)

RMul(a, b) == Norm(a[1] * b[1], a[2] * b[2])

\* a / b, for b > 0
RDiv(a, b) == Norm(a[1] * b[2], a[2] * b[1])

RAdd(a, b) == Norm(a[1] * b[2] + b[1] * a[2], a[2] * b[2])

RSub(a, b) == Norm(a[1] * b[2] - b[1] * a[2], a[2] * b[2])

RLess(a, b) == a[1] * b[2] < b[1] * a[2]

\* Math.min
RMin(a, b) == IF RLess(b, a) THEN b ELSE a

\* Math.max
RMax(a, b) == IF RLess(a, b) THEN b ELSE a

\* a variant of ClampScale that does not clamp
Unclamped(x) == x

\* Math.max(0.1, Math.min(5, x))
ClampScale(x) == RMax(Rat(1, 10), RMin(Rat(5, 1), x))

\* e.deltaY of the wheel events: up, sideways, down
WheelDeltas == { -100, 0, 100 }

\* const delta = e.deltaY > 0 ? 0.9 : 1.1
WheelFactor(deltaY) == IF deltaY > 0 THEN Rat(9, 10) ELSE Rat(11, 10)

\* the most zoom gestures of a run
MaxGestures == 3

\* handleWheel
HandleWheel(deltaY) ==
  /\ gestures < MaxGestures
  /\ gestures' = gestures + 1
  /\ IF displayMode = "inline"
       THEN /\ panZoom' = [ panZoom EXCEPT
                 !.scale = ClampScale(RMul(panZoom.scale, WheelFactor(deltaY))) ]
            /\ previewZoom' = previewZoom
            /\ last' = [ op |-> "wheel", kind |-> displayMode,
                         note |-> IF panZoom'.scale
                                       # RMul(panZoom.scale, WheelFactor(deltaY))
                                    THEN "clamped" ELSE "-" ]
       ELSE /\ previewZoom' = ClampScale(RMul(previewZoom, WheelFactor(deltaY)))
            /\ panZoom' = panZoom
            /\ last' = [ op |-> "wheel", kind |-> displayMode,
                         note |-> IF previewZoom'
                                       # RMul(previewZoom, WheelFactor(deltaY))
                                    THEN "clamped" ELSE "-" ]
  /\ UNCHANGED << previewPan, isPanningRef, lastMousePosRef >>
  /\ UNCHANGED << repairVars, fitVars, exportVars, serverVars >>
  /\ UNCHANGED << sysDark, hostDark, diagramState, agentCustomTheme,
                  renderedSvg, error, isStreaming, displayMode, editedMermaid,
                  renderingRef, userSelectedThemeRef, attempts, engineTheme,
                  dom, finalDropped >>

\* e.clientX, e.clientY of the mouse events
MousePoints == { [ x |-> 0, y |-> 0 ], [ x |-> 30, y |-> -20 ] }

\* handleMouseDown
HandleMouseDown(e) ==
  /\ isPanningRef' = TRUE
  /\ lastMousePosRef' = e
  /\ UNCHANGED << panZoom, previewZoom, previewPan, gestures >>
  /\ UNCHANGED << repairVars, fitVars, exportVars, serverVars >>
  /\ UNCHANGED << sysDark, hostDark, diagramState, agentCustomTheme,
                  renderedSvg, error, isStreaming, displayMode, editedMermaid,
                  renderingRef, userSelectedThemeRef, attempts, engineTheme,
                  dom, finalDropped, last >>

\* a variant of HandleMouseMove that moves the transforms of both
\* presentations
HandleMouseMoveBoth(e) ==
  /\ isPanningRef
  /\ gestures < MaxGestures
  /\ gestures' = gestures + 1
  /\ lastMousePosRef' = e
  /\ LET dx == Rat(e.x - lastMousePosRef.x, 1)
         dy == Rat(e.y - lastMousePosRef.y, 1)
     IN  /\ panZoom' = [ panZoom EXCEPT !.translateX = RAdd(@, dx),
                                        !.translateY = RAdd(@, dy) ]
         /\ previewPan' = [ x |-> RAdd(previewPan.x, dx),
                            y |-> RAdd(previewPan.y, dy) ]
  /\ UNCHANGED << previewZoom, isPanningRef >>
  /\ UNCHANGED << repairVars, fitVars, exportVars, serverVars >>
  /\ UNCHANGED << sysDark, hostDark, diagramState, agentCustomTheme,
                  renderedSvg, error, isStreaming, displayMode, editedMermaid,
                  renderingRef, userSelectedThemeRef, attempts, engineTheme,
                  dom, finalDropped, last >>

\* a variant of HandleMouseMove that does not look at isPanningRef
HandleMouseMoveAlways(e) ==
  /\ gestures < MaxGestures
  /\ gestures' = gestures + 1
  /\ lastMousePosRef' = e
  /\ LET dx == Rat(e.x - lastMousePosRef.x, 1)
         dy == Rat(e.y - lastMousePosRef.y, 1)
     IN  IF displayMode = "inline"
           THEN /\ panZoom' = [ panZoom EXCEPT !.translateX = RAdd(@, dx),
                                               !.translateY = RAdd(@, dy) ]
                /\ previewPan' = previewPan
           ELSE /\ previewPan' = [ x |-> RAdd(previewPan.x, dx),
                                   y |-> RAdd(previewPan.y, dy) ]
                /\ panZoom' = panZoom
  /\ UNCHANGED << previewZoom, isPanningRef >>
  /\ UNCHANGED << repairVars, fitVars, exportVars, serverVars >>
  /\ UNCHANGED << sysDark, hostDark, diagramState, agentCustomTheme,
                  renderedSvg, error, isStreaming, displayMode, editedMermaid,
                  renderingRef, userSelectedThemeRef, attempts, engineTheme,
                  dom, finalDropped, last >>

\* handleMouseMove, while a drag is on
HandleMouseMove(e) ==
  /\ isPanningRef
  /\ gestures < MaxGestures
  /\ gestures' = gestures + 1
  /\ lastMousePosRef' = e
  /\ LET dx == Rat(e.x - lastMousePosRef.x, 1)
         dy == Rat(e.y - lastMousePosRef.y, 1)
     IN  IF displayMode = "inline"
           THEN /\ panZoom' = [ panZoom EXCEPT !.translateX = RAdd(@, dx),
                                               !.translateY = RAdd(@, dy) ]
                /\ previewPan' = previewPan
           ELSE /\ previewPan' = [ x |-> RAdd(previewPan.x, dx),
                                   y |-> RAdd(previewPan.y, dy) ]
                /\ panZoom' = panZoom
  /\ UNCHANGED << previewZoom, isPanningRef >>
  /\ UNCHANGED << repairVars, fitVars, exportVars, serverVars >>
  /\ UNCHANGED << sysDark, hostDark, diagramState, agentCustomTheme,
                  renderedSvg, error, isStreaming, displayMode, editedMermaid,
                  renderingRef, userSelectedThemeRef, attempts, engineTheme,
                  dom, finalDropped, last >>

\* handleMouseUp, on mouseup and on mouseleave
HandleMouseUp ==
  /\ isPanningRef
  /\ isPanningRef' = FALSE
  /\ UNCHANGED << panZoom, previewZoom, previewPan, lastMousePosRef,
                  gestures >>
  /\ UNCHANGED << repairVars, fitVars, exportVars, serverVars >>
  /\ UNCHANGED << sysDark, hostDark, diagramState, agentCustomTheme,
                  renderedSvg, error, isStreaming, displayMode, editedMermaid,
                  renderingRef, userSelectedThemeRef, attempts, engineTheme,
                  dom, finalDropped, last >>

\* what calcFitView measures: the client size of the viewport and the
\* natural size of the svg
Measures ==
  { [ vpW |-> 400,  vpH |-> 300, svgW |-> 800,  svgH |-> 600 ],
    [ vpW |-> 1200, vpH |-> 800, svgW |-> 800,  svgH |-> 600 ],
    [ vpW |-> 400,  vpH |-> 300, svgW |-> 40,   svgH |-> 30 ],
    [ vpW |-> 400,  vpH |-> 300, svgW |-> 8000, svgH |-> 300 ],
    [ vpW |-> 400,  vpH |-> 300, svgW |-> 0,    svgH |-> 600 ] }

\* a variant of FitMargin that leaves no margin
FitMarginNone == Rat(1, 1)

\* the margin factor 0.92 of calcFitView
FitMargin == Rat(92, 100)

\* the view calcFitView returns when it has nothing to measure
NoFit == [ zoom |-> Rat(1, 1), pan |-> [ x |-> Rat(0, 1), y |-> Rat(0, 1) ] ]

\* calcFitView(viewportEl), hasSvg telling whether the viewport holds an svg
CalcFitView(hasSvg, m) ==
  IF ~hasSvg \/ m.svgW = 0 \/ m.svgH = 0 THEN NoFit
  ELSE LET zoom == RMul(RMin(RDiv(Rat(m.vpW, 1), Rat(m.svgW, 1)),
                             RDiv(Rat(m.vpH, 1), Rat(m.svgH, 1))),
                        Norm(FitMargin[1], FitMargin[2]))
           panX == RDiv(RSub(Rat(m.vpW, 1), RMul(Rat(m.svgW, 1), zoom)),
                        Rat(2, 1))
           panY == RDiv(RSub(Rat(m.vpH, 1), RMul(Rat(m.svgH, 1), zoom)),
                        Rat(2, 1))
       IN  [ zoom |-> zoom, pan |-> [ x |-> panX, y |-> panY ] ]

\* applyFitView, from the Fit button or the auto-fit effect of the
\* fullscreen presentation: calcFitView(previewViewportRef.current)
ApplyFitView(m) ==
  /\ displayMode = "fullscreen"
  /\ previewZoom' = CalcFitView(renderedSvg # NoSvg, m).zoom
  /\ previewPan' = CalcFitView(renderedSvg # NoSvg, m).pan
  /\ UNCHANGED << panZoom, isPanningRef, lastMousePosRef, gestures >>
  /\ UNCHANGED << repairVars, fitVars, exportVars, serverVars >>
  /\ UNCHANGED << sysDark, hostDark, diagramState, agentCustomTheme,
                  renderedSvg, error, isStreaming, displayMode, editedMermaid,
                  renderingRef, userSelectedThemeRef, attempts, engineTheme,
                  dom, finalDropped, last >>

\* the Zoom In button of the preview toolbar:
\* setPreviewZoom((z) => Math.min(5, z * 1.2))
ZoomIn ==
  /\ displayMode = "fullscreen"
  /\ gestures < MaxGestures
  /\ gestures' = gestures + 1
  /\ previewZoom' = RMin(Rat(5, 1), RMul(previewZoom, Rat(6, 5)))
  /\ UNCHANGED << panZoom, previewPan, isPanningRef, lastMousePosRef >>
  /\ UNCHANGED << repairVars, fitVars, exportVars, serverVars >>
  /\ UNCHANGED << sysDark, hostDark, diagramState, agentCustomTheme,
                  renderedSvg, error, isStreaming, displayMode, editedMermaid,
                  renderingRef, userSelectedThemeRef, attempts, engineTheme,
                  dom, finalDropped, last >>

\* the Zoom Out button of the preview toolbar:
\* setPreviewZoom((z) => Math.max(0.1, z / 1.2))
ZoomOut ==
  /\ displayMode = "fullscreen"
  /\ gestures < MaxGestures
  /\ gestures' = gestures + 1
  /\ previewZoom' = RMax(Rat(1, 10), RDiv(previewZoom, Rat(6, 5)))
  /\ UNCHANGED << panZoom, previewPan, isPanningRef, lastMousePosRef >>
  /\ UNCHANGED << repairVars, fitVars, exportVars, serverVars >>
  /\ UNCHANGED << sysDark, hostDark, diagramState, agentCustomTheme,
                  renderedSvg, error, isStreaming, displayMode, editedMermaid,
                  renderingRef, userSelectedThemeRef, attempts, engineTheme,
                  dom, finalDropped, last >>

\* the 1:1 button of the preview toolbar:
\* setPreviewZoom(1); setPreviewPan({ x: 0, y: 0 })
ResetZoom ==
  /\ displayMode = "fullscreen"
  /\ previewZoom' = Rat(1, 1)
  /\ previewPan' = [ x |-> Rat(0, 1), y |-> Rat(0, 1) ]
  /\ UNCHANGED << panZoom, isPanningRef, lastMousePosRef, gestures >>
  /\ UNCHANGED << repairVars, fitVars, exportVars, serverVars >>
  /\ UNCHANGED << sysDark, hostDark, diagramState, agentCustomTheme,
                  renderedSvg, error, isStreaming, displayMode, editedMermaid,
                  renderingRef, userSelectedThemeRef, attempts, engineTheme,
                  dom, finalDropped, last >>

\* the natural size of the graphic the auto-fit measures
NaturalSize == [ w |-> 800, h |-> 600 ]

\* what calcFitView measures when the viewport has the given size
FitMeasure(size) ==
  [ vpW |-> size.w, vpH |-> size.h,
    svgW |-> NaturalSize.w, svgH |-> NaturalSize.h ]

\* waitForStableAndFit: if (cancelled || fitted) return; lastW, lastH are
\* read, stableFrames = 0, and check is requested for the next frame
WaitForStableAndFit(e, size) ==
  IF ~e.live \/ e.fitted THEN e
  ELSE [ e EXCEPT !.loops = Append(@, [ last |-> size, stableFrames |-> 0 ]),
                  !.started = @ + 1 ]

\* a variant of Check that keeps counting when the size has changed
CheckNoReset(loop, size) ==
  [ last |-> size, stableFrames |-> loop.stableFrames + 1 ]

\* check, up to the test of stableFrames: the same size as in the last frame
\* counts one more stable frame, another size starts the count again
Check(loop, size) ==
  IF size = loop.last
    THEN [ loop EXCEPT !.stableFrames = @ + 1 ]
    ELSE [ last |-> size, stableFrames |-> 0 ]

\* a variant of CheckReturns that never returns
CheckReturnsNever(closure) == FALSE

\* check: if (cancelled || fitted) return
CheckReturns(closure) == closure.cancelled \/ closure.fitted

\* the check callbacks of the runs that were cleaned up: cancelled and fitted
\* are set in their closures
StaleChecks(stale, size) ==
  LET closure == [ cancelled |-> TRUE, fitted |-> TRUE ]
      checked == IF CheckReturns(closure) THEN { }
                 ELSE { Check(loop, size) : loop \in stale }
  IN  [ next |-> { loop \in checked : loop.stableFrames < 3 },
        fits |-> Cardinality({ loop \in checked : loop.stableFrames >= 3 }) ]

\* the most check callbacks pending for one frame
MaxPending == 2

\* the host resizes the viewport; the ResizeObserver of the auto-fit effect,
\* while it observes, disconnects and starts waiting once the size differs
\* from the initial one
HostResize(size) ==
  /\ size # viewport
  /\ Cardinality(autoFit.stale) + Len(autoFit.loops) < MaxPending
  /\ viewport' = size
  /\ autoFit' = IF autoFit.observing /\ size # autoFit.initial
                  THEN WaitForStableAndFit(
                         [ autoFit EXCEPT !.observing = FALSE ], size)
                  ELSE autoFit
  /\ UNCHANGED << frameLog, viewVars, repairVars, exportVars, serverVars >>
  /\ UNCHANGED << sysDark, hostDark, diagramState, agentCustomTheme,
                  renderedSvg, error, isStreaming, displayMode, editedMermaid,
                  renderingRef, userSelectedThemeRef, attempts, engineTheme,
                  dom, finalDropped, last >>

\* the fallback timeout of the auto-fit effect fires after 500 ms:
\* observer.disconnect(); if (!fitted) waitForStableAndFit()
FallbackTimeout ==
  /\ autoFit.fallback
  /\ Cardinality(autoFit.stale) + Len(autoFit.loops) < MaxPending
  /\ autoFit' = WaitForStableAndFit(
                  [ autoFit EXCEPT !.fallback = FALSE, !.observing = FALSE ],
                  viewport)
  /\ UNCHANGED << viewport, frameLog, viewVars, repairVars, exportVars,
                  serverVars >>
  /\ UNCHANGED << sysDark, hostDark, diagramState, agentCustomTheme,
                  renderedSvg, error, isStreaming, displayMode, editedMermaid,
                  renderingRef, userSelectedThemeRef, attempts, engineTheme,
                  dom, finalDropped, last >>

\* the check callbacks of one closure run in the order they were requested,
\* from the k-th on: one that returns at once is gone, one that counts three
\* stable frames sets fitted and calls applyFitView, any other requests the
\* next frame
RECURSIVE RunChecks(_, _, _, _)
RunChecks(closure, loops, size, k) ==
  IF k > Len(loops) THEN closure
  ELSE IF CheckReturns(closure) THEN RunChecks(closure, loops, size, k + 1)
  ELSE LET checked == Check(loops[k], size)
       IN  IF checked.stableFrames >= 3
             THEN RunChecks([ closure EXCEPT !.fitted = TRUE, !.fits = @ + 1 ],
                            loops, size, k + 1)
             ELSE RunChecks([ closure EXCEPT !.next = Append(@, checked) ],
                            loops, size, k + 1)

\* an animation frame: the pending check callbacks run, those of the runs
\* that were cleaned up and those of the current run; each call of
\* applyFitView sets the fullscreen transform
Frame ==
  /\ autoFit.loops # << >> \/ autoFit.stale # { }
  /\ frameLog' = LET all == Append(frameLog, viewport)
                 IN  IF autoFit.loops = << >> THEN frameLog
                     ELSE IF Len(all) > 3 THEN Tail(all) ELSE all
  /\ LET old == StaleChecks(autoFit.stale, viewport)
         cur == RunChecks([ cancelled |-> ~autoFit.live,
                            fitted |-> autoFit.fitted, fits |-> 0,
                            next |-> << >> ], autoFit.loops, viewport, 1)
     IN  /\ autoFit' = [ autoFit EXCEPT !.fitted = cur.fitted,
                                        !.fits = @ + cur.fits,
                                        !.loops = cur.next,
                                        !.stale = old.next,
                                        !.lateFit = @ \/ old.fits > 0 ]
         /\ IF old.fits + cur.fits > 0
              THEN /\ previewZoom' =
                        CalcFitView(renderedSvg # NoSvg,
                                    FitMeasure(viewport)).zoom
                   /\ previewPan' =
                        CalcFitView(renderedSvg # NoSvg,
                                    FitMeasure(viewport)).pan
              ELSE UNCHANGED << previewZoom, previewPan >>
  /\ UNCHANGED << viewport, panZoom, isPanningRef, lastMousePosRef, gestures >>
  /\ UNCHANGED << repairVars, exportVars, serverVars >>
  /\ UNCHANGED << sysDark, hostDark, diagramState, agentCustomTheme,
                  renderedSvg, error, isStreaming, displayMode, editedMermaid,
                  renderingRef, userSelectedThemeRef, attempts, engineTheme,
                  dom, finalDropped, last >>


\* the scales a run starts from: 1, and the two bounds, which wheel events
\* reach from 1
StartScales == { Rat(1, 10), Rat(1, 1), Rat(5, 1) }

\* a graphic is on display or not, and the scales are within their bounds
InitView ==
  /\ sysDark \in BOOLEAN
  /\ hostDark = sysDark
  /\ diagramState = [ mermaid |-> DocEmpty,
                      theme |-> IF sysDark THEN "dark" ELSE "light",
                      title |-> Undefined,
                      checkpointId |-> Undefined ]
  /\ agentCustomTheme = Null
  /\ renderedSvg \in { NoSvg, Svg(DocFlow, "base/light") }
  /\ error = Null
  /\ isStreaming = FALSE
  /\ displayMode = "inline"
  /\ editedMermaid = DocEmpty
  /\ renderingRef = FALSE
  /\ userSelectedThemeRef = FALSE
  /\ attempts = << >>
  /\ engineTheme = "default"
  /\ dom = { }
  /\ last = [ op |-> "init", kind |-> "-", note |-> "-" ]
  /\ finalDropped = FALSE
  /\ panZoom \in [ scale : StartScales, translateX : { Rat(0, 1) },
                   translateY : { Rat(0, 1) } ]
  /\ previewZoom \in StartScales
  /\ previewPan = [ x |-> Rat(0, 1), y |-> Rat(0, 1) ]
  /\ isPanningRef = FALSE
  /\ lastMousePosRef = [ x |-> 0, y |-> 0 ]
  /\ gestures = 0
  /\ RepairInit
  /\ FitInit
  /\ ExportInit
  /\ ServerInit

NextView ==
  \/ \E deltaY \in WheelDeltas : HandleWheel(deltaY)
  \/ \E e \in MousePoints : HandleMouseDown(e)
  \/ \E e \in MousePoints : HandleMouseMove(e)
  \/ HandleMouseUp
  \/ \E m \in Measures : ApplyFitView(m)
  \/ HandleFullscreenToggle

\* the view transforms under zoom gestures and fit-to-view
SpecView == InitView /\ [][NextView]_vars

NextPan ==
  \/ \E e \in MousePoints : HandleMouseDown(e)
  \/ \E e \in MousePoints : HandleMouseMove(e)
  \/ HandleMouseUp
  \/ HandleFullscreenToggle

\* the drags of the pointer over the viewport, in either presentation
SpecPan == InitView /\ [][NextPan]_vars

NextZoom ==
  \/ \E deltaY \in WheelDeltas : HandleWheel(deltaY)
  \/ ZoomIn
  \/ ZoomOut
  \/ ResetZoom
  \/ \E m \in Measures : ApplyFitView(m)
  \/ HandleFullscreenToggle
  \/ FallbackTimeout
  \/ Frame

\* the scales under the wheel, the buttons of the preview toolbar and the
\* automatic fit
SpecZoom == InitView /\ [][NextZoom]_vars

NextAutoFit ==
  \/ HandleFullscreenToggle
  \/ \E size \in ViewportSizes : HostResize(size)
  \/ FallbackTimeout
  \/ Frame

\* the auto-fit of the fullscreen presentation while the host resizes the
\* viewport
SpecAutoFit == InitView /\ [][NextAutoFit]_vars

NextAutoFitRuns ==
  \/ HandleFullscreenToggle
  \/ \E size \in ViewportSizes : HostResize(size)
  \/ FallbackTimeout
  \/ Frame
  \/ \E m \in { DocFlow, DocCycle } : HandleMermaidEdit(m, TRUE)
  \/ \E i \in 1..Len(attempts) : RenderOk(i)

\* the runs of the auto-fit effect: the presentation is entered and left,
\* the graphic is replaced by the renders of the editor that succeed, the
\* host resizes the viewport
SpecAutoFitRuns == Init /\ [][NextAutoFitRuns]_vars

\* the transforms a session starts from: moved by the user in both
\* presentations; the colour scheme, which no step of the slice changes, is
\* the light one
InitSessionView ==
  /\ PipelineInit
  /\ ~sysDark
  /\ panZoom = [ scale |-> Rat(11, 10), translateX |-> Rat(30, 1),
                 translateY |-> Rat(-20, 1) ]
  /\ previewZoom = Rat(9, 10)
  /\ previewPan = [ x |-> Rat(-30, 1), y |-> Rat(20, 1) ]
  /\ isPanningRef = FALSE
  /\ lastMousePosRef = [ x |-> 0, y |-> 0 ]
  /\ gestures = MaxGestures
  /\ RepairInit
  /\ FitInit
  /\ ExportInit
  /\ ServerInit

NextSessionView ==
  \/ Notifications
  \/ \E r \in ToolResults : OnToolResult(r)
  \/ Engine
  \/ HandleFullscreenToggle
  \/ FallbackTimeout
  \/ Frame

\* the host's notifications and the commits of their renders, in either
\* presentation, with the auto-fit of the fullscreen presentation
SpecSessionView == InitSessionView /\ [][NextSessionView]_vars

(***************************************************************************)
(* The export of the fullscreen presentation.                              *)
(***************************************************************************)
\* how app.callServerTool and the copy after it can end: the call resolves
\* with the optimized svg, resolves with an error result (its text is then
\* what is copied), resolves without content, or rejects; or the copy throws
ExportOutcomes == { "optimized", "isError", "empty", "rejected", "copyThrows" }

\* a variant of ExportError that reports the outcome in the error field
ExportErrorShown(outcome) == "Export failed"

\* what the export leaves in the error field: it never calls setError
ExportError(outcome) == error

\* the console call of an outcome: console.info after the copy,
\* console.error in the catch
ExportLogs(outcome) ==
  IF outcome \in { "rejected", "copyThrows" } THEN "console.error"
  ELSE "console.info"

\* handleExport up to its await: if (!app || !renderedSvg || isExporting)
\* return; setIsExporting(true); the button is in the fullscreen toolbar
HandleExport ==
  /\ displayMode = "fullscreen"
  /\ renderedSvg # NoSvg
  /\ ~isExporting
  /\ isExporting' = TRUE
  /\ exportLog' = "none"
  /\ last' = [ op |-> "export", kind |-> "started", note |-> "-" ]
  /\ UNCHANGED << viewVars, repairVars, fitVars, serverVars >>
  /\ UNCHANGED << sysDark, hostDark, diagramState, agentCustomTheme,
                  renderedSvg, error, isStreaming, displayMode, editedMermaid,
                  renderingRef, userSelectedThemeRef, attempts, engineTheme,
                  dom, finalDropped >>

\* handleExport after its await: the copy and console.info, or the catch
\* with console.error; finally setIsExporting(false)
ExportSettles(outcome) ==
  /\ isExporting
  /\ isExporting' = FALSE
  /\ exportLog' = ExportLogs(outcome)
  /\ error' = ExportError(outcome)
  /\ last' = [ op |-> "export", kind |-> outcome, note |-> "-" ]
  /\ UNCHANGED << viewVars, repairVars, fitVars, serverVars >>
  /\ UNCHANGED << sysDark, hostDark, diagramState, agentCustomTheme,
                  renderedSvg, isStreaming, displayMode, editedMermaid,
                  renderingRef, userSelectedThemeRef, attempts, engineTheme,
                  dom, finalDropped >>

NextExport ==
  \/ HandleExport
  \/ \E outcome \in ExportOutcomes : ExportSettles(outcome)
  \/ HandleFullscreenToggle
  \/ \E newSyntax \in Docs, cfgOk \in BOOLEAN :
       HandleMermaidEdit(newSyntax, cfgOk)
  \/ Engine

\* exports while the user edits the text in the fullscreen presentation
SpecExport == Init /\ [][NextExport]_vars

(***************************************************************************)
(* The create_view tool of the server.                                     *)
(***************************************************************************)
\* the arguments the agent calls create_view with, before the schema's
\* default is applied: theme and title absent or given
CreateViewArgs ==
  [ mermaid : { DocEmpty, DocBlank, DocFlow, DocCycle, DocUnclosed },
    theme : { Undefined, "default", "forest", "dark", "neutral", "base" },
    title : { Undefined, "T" } ]

\* Math.random().toString(36) for the draws 0, 0.5 and one of many digits
RandomDraws ==
  { << "0" >>, << "0", ".", "i" >>,
    << "0", ".", "4", "f", "z", "y", "o", "8", "2", "m" >> }

\* s.slice(from, to) of a string, the positions counted from 0
Slice(str, from, to) ==
  SubSeq(str, from + 1, IF to < Len(str) THEN to ELSE Len(str))

\* z.enum([...]).optional().default("default")
SchemaTheme(theme) == IF theme = Undefined THEN "default" ELSE theme

\* a variant of create_view that rejects the empty text only
create_viewNoTrim(args, draw) ==
  IF args.mermaid = DocEmpty
    THEN [ isError |-> TRUE, structuredContent |-> << >> ]
    ELSE [ isError |-> FALSE,
           structuredContent |->
             << [ checkpointId |-> Slice(draw, 2, 8),
                  theme |-> SchemaTheme(args.theme),
                  title |-> args.title ] >> ]

\* the handler of create_view: the result for the arguments and the random
\* draw of the call; structuredContent is << >> when the result has none
create_view(args, draw) ==
  IF IsBlank(args.mermaid)
    THEN [ isError |-> TRUE, structuredContent |-> << >> ]
    ELSE [ isError |-> FALSE,
           structuredContent |->
             << [ checkpointId |-> Slice(draw, 2, 8),
                  theme |-> SchemaTheme(args.theme),
                  title |-> args.title ] >> ]

\* the agent calls create_view
CallCreateView(args, draw) ==
  /\ request' = << args >>
  /\ response' = << create_view(args, draw) >>
  /\ UNCHANGED << viewVars, repairVars, fitVars, exportVars >>
  /\ UNCHANGED << sysDark, hostDark, diagramState, agentCustomTheme,
                  renderedSvg, error, isStreaming, displayMode, editedMermaid,
                  renderingRef, userSelectedThemeRef, attempts, engineTheme,
                  dom, finalDropped, last >>

NextServer ==
  \E args \in CreateViewArgs, draw \in RandomDraws : CallCreateView(args, draw)

\* create_view as a function of its arguments
SpecServer == Init /\ [][NextServer]_vars

(***************************************************************************)
(* Properties of the render pipeline.                                      *)
(***************************************************************************)
\* the attempt i ends in failure: its validation or its render call rejects
Fails(i) ==
  \/ ParseFail(i)
  \/ \E msg \in EngineMessages, created \in BOOLEAN, id \in Ids :
        RenderFail(i, msg, created, id)

\* C1: when a partial attempt fails, at the validate-only check or at the
\* render call, the committed graphic and the error keep their values.
PartialFailureKeepsDisplay ==
  [][ \A i \in 1..Len(attempts) :
        (attempts[i].isPartial /\ Fails(i))
          => UNCHANGED << renderedSvg, error >> ]_vars

\* a partial attempt has just failed over a shown graphic and a shown error
PartialFailedOverGraphicAndError ==
  /\ last.op \in { "parse_fail", "render_fail" }
  /\ last.kind = "partial"
  /\ renderedSvg # NoSvg
  /\ error # Null

\* C2: when a final attempt fails at the render call, the error becomes a
\* non-empty reason and the committed graphic is what it was before.
FinalFailureSetsError ==
  [][ \A i \in 1..Len(attempts) :
        (~attempts[i].isPartial /\ Fails(i))
          => /\ error' \notin { Null, "" }
             /\ renderedSvg' = renderedSvg ]_vars

\* a final attempt has just failed with an empty message over a shown graphic
FinalFailedOverGraphic ==
  /\ last.op = "render_fail"
  /\ last.kind = "final"
  /\ renderedSvg # NoSvg
  /\ error = "Failed to render diagram"

\* C3: when the render call of an attempt succeeds, partial or final, the
\* committed graphic becomes the graphic that render returned and the error
\* is cleared, an error left by an earlier failed final attempt included.
SuccessCommitsGraphic ==
  [][ \A i \in 1..Len(attempts) :
        RenderOk(i)
          => /\ renderedSvg' = Svg(attempts[i].syntax, engineTheme)
             /\ error' = Null ]_vars

\* a partial attempt has just succeeded and cleared an earlier error
PartialSuccessClearedError ==
  /\ last = [ op |-> "render_ok", kind |-> "partial", note |-> "cleared" ]
  /\ renderedSvg # NoSvg
  /\ error = Null

\* C4: at most one render attempt is between acquiring and releasing the
\* in-flight flag, whatever triggers arrive while it is suspended, and the
\* flag is held for as long as the attempt is.
AtMostOneAttempt ==
  /\ Len(attempts) <= 1
  /\ renderingRef <=> (attempts # << >>)

\* an attempt holds the flag and a final input that arrived meanwhile was
\* refused
AttemptHeldFinalInputOut ==
  /\ Len(attempts) = 1
  /\ renderingRef
  /\ finalDropped

\* C5: a final input that arrives while an attempt is in flight is rendered
\* once that attempt completes, so while its render is still owed the
\* pipeline is not idle.
DroppedFinalInputIsRenderedNext ==
  finalDropped => renderingRef

NoOrphanRemains ==
  dom = { }

\* a partial attempt's render call has just failed after the engine had
\* created its element
PartialFailedAfterElement ==
  /\ last = [ op |-> "render_fail", kind |-> "partial", note |-> "orphan" ]
  /\ attempts = << >>
  /\ dom = { }

\* C11: a partial attempt calls the validate-only check before the render
\* call, and when validation fails its render call is never made; a final
\* attempt goes to the render call without a validate call.
ValidateBeforeRender ==
  [][ /\ Len(attempts') > Len(attempts)
           => LET a == attempts'[Len(attempts')]
              IN  a.pc = IF a.isPartial THEN "parse" ELSE "render"
      /\ \A i \in 1..Len(attempts) :
           /\ attempts[i].pc = "parse" => attempts[i].isPartial
           /\ ParseFail(i)
                => /\ attempts' = RemoveAt(attempts, i)
                   /\ UNCHANGED << renderedSvg, error, dom >>
                   /\ last'.op = "parse_fail" ]_vars

\* the validation of a partial attempt has just failed and the attempt has
\* ended without a render call
PartialEndedAtValidation ==
  /\ last = [ op |-> "parse_fail", kind |-> "partial", note |-> "-" ]
  /\ attempts = << >>
  /\ ~renderingRef

\* C12 (as the code has it): the text handed to validate and render is the
\* output of fixSubgraphCycles for the whole text of the attempt, partial or
\* final: it has as many lines as the text, the final line included.
AttemptKeepsEveryLine ==
  \A i \in 1..Len(attempts) :
    /\ attempts[i].syntax = fixSubgraphCycles(attempts[i].raw)
    /\ Len(SplitLines(attempts[i].syntax)) = Len(SplitLines(attempts[i].raw))

\* a partial attempt of a text of three lines is in flight with all three
PartialAttemptOfThreeLines ==
  /\ Len(attempts) = 1
  /\ attempts[1].isPartial
  /\ attempts[1].raw = DocCycle
  /\ Len(SplitLines(attempts[1].syntax)) = 3

\* C12 (as the spec has it): the text a partial attempt hands over for a
\* snapshot of more than one line has lost the snapshot's final line, and a
\* snapshot of one line is handed over unchanged.
PartialAttemptDropsFinalLine ==
  \A i \in 1..Len(attempts) :
    attempts[i].isPartial
      => IF Len(SplitLines(attempts[i].raw)) > 1
           THEN Len(SplitLines(attempts[i].syntax))
                  = Len(SplitLines(attempts[i].raw)) - 1
           ELSE attempts[i].syntax = attempts[i].raw

\* C25 (as the code has it): no attempt, partial or final, has closers
\* appended: the text handed to validate and render is as long as the text
\* repaired by fixSubgraphCycles alone, and its final line expects the same
\* closers as the final line of the attempt's text.
AttemptAppendsNoClosers ==
  \A i \in 1..Len(attempts) :
    /\ Len(attempts[i].syntax) = Len(fixSubgraphCycles(attempts[i].raw))
    /\ OpenAtEnd(attempts[i].syntax) = OpenAtEnd(attempts[i].raw)

\* a partial attempt of a snapshot cut inside a shape is in flight, its final
\* line still expecting the round and the square closer
PartialAttemptLeftOpen ==
  /\ Len(attempts) = 1
  /\ attempts[1].isPartial
  /\ attempts[1].raw = DocUnclosed
  /\ OpenAtEnd(attempts[1].syntax) = << "]", ")" >>

\* C25 (as the spec has it): the text a partial attempt hands over for a
\* snapshot of more than one line has a final line with no unmatched opener.
PartialFinalLineIsBalanced ==
  \A i \in 1..Len(attempts) :
    (attempts[i].isPartial /\ Len(SplitLines(attempts[i].raw)) > 1)
      => OpenAtEnd(attempts[i].syntax) = << >>

\* C27: a call of renderMermaid that finds a render in flight is skipped for
\* good: while the flag is held no attempt is added, so no validate or render
\* call is made; a step that leaves the flag held changes neither the
\* graphic nor the error nor the attempt in flight; and the step in which the
\* render in flight completes starts no attempt, the skipped one included,
\* and leaves the flag released.
SkippedAttemptIsNotRescheduled ==
  [][/\ renderingRef => (attempts' = attempts \/ attempts' = << >>)
     /\ (renderingRef /\ renderingRef')
          => UNCHANGED << renderedSvg, error, attempts >>
     /\ Len(attempts') < Len(attempts)
          => /\ attempts' = << >>
             /\ ~renderingRef'
             /\ finalDropped' = finalDropped]_vars

\* the render that was in flight has succeeded, nothing is in flight, and
\* the final input skipped meanwhile has not been rendered
SkippedInputStillUnrendered ==
  /\ finalDropped
  /\ last.op = "render_ok"
  /\ ~renderingRef
  /\ attempts = << >>
  /\ renderedSvg.text # fixSubgraphCycles(diagramState.mermaid)

\* C28: the in-flight flag is released on every path by which an attempt
\* ends: the step that ends an attempt (validation failure of a partial
\* attempt, render success, render failure) leaves the flag false, a call
\* that fails while configuring the engine leaves it false, and a call made
\* when no attempt is executing is never refused for the flag.
FlagReleasedOnEveryPath ==
  [][/\ Len(attempts') < Len(attempts) => ~renderingRef'
     /\ (last' # last /\ last'.op \in { "parse_fail", "render_ok",
                                        "render_fail", "config_error" })
          => ~renderingRef'
     /\ \A m \in Docs \cup { DocUnclosed }, cfgOk \in BOOLEAN :
          attempts = << >> => RenderOutcome(m, cfgOk) # "busy"]_vars

\* a call has failed while configuring the engine, and the flag it had
\* acquired is released
ConfigErrorReleasedFlag ==
  /\ last.op = "config_error"
  /\ ~renderingRef
  /\ attempts = << >>

\* C29: the structural repair runs on every attempt, partial or final: the
\* text an attempt hands to the validate call and to the render call is the
\* output of fixSubgraphCycles for the attempt's text, and the graphic a
\* render commits is the graphic of that output.
RepairRunsOnEveryAttempt ==
  [][/\ \A i \in 1..Len(attempts') :
          attempts'[i].syntax = fixSubgraphCycles(attempts'[i].raw)
     /\ \A i \in 1..Len(attempts) :
          RenderOk(i)
            => renderedSvg'.text = fixSubgraphCycles(attempts[i].raw)]_vars

\* a partial attempt is at the validate call with the colliding member of
\* its text renamed
PartialValidatesRepairedText ==
  /\ Len(attempts) = 1
  /\ attempts[1].isPartial
  /\ attempts[1].pc = "parse"
  /\ attempts[1].raw = DocCycle
  /\ attempts[1].syntax # attempts[1].raw

(***************************************************************************)
(* Properties of the structural repair.                                    *)
(***************************************************************************)
\* the identifier id stands at position p of line as a whole token and is
\* followed, after optional blanks, by a shape-opening character
MemberAt(line, p, id) ==
  /\ MatchAt(line, p, id, FALSE)
  /\ WordBoundary(line, p - 1)
  /\ WordBoundary(line, p + Len(id) - 1)
  /\ LET r == SkipSpaces(line, p + Len(id))
     IN  r <= Len(line) /\ line[r] \in ShapeOpeners

\* some non-declaration line of the document has a member identifier that
\* equals the name of a grouping construct the document declares
HasCollision(doc) ==
  LET lines == SplitLines(doc)
      names == SeqRange(CollectSubgraphIds(lines, << >>))
  IN  \E k \in 1..Len(lines) :
        /\ ~IsSubgraphDecl(lines[k])
        /\ \E id \in names : \E p \in 1..Len(lines[k]) :
             MemberAt(lines[k], p, id)

\* C13: for a document in which a grouping construct's name collides with a
\* member identifier, the output of fixSubgraphCycles has no member
\* identifier, on a non-declaration line, that equals a declared name.
RepairRemovesCollisions ==
  (fixedOut # << >> /\ HasCollision(syntaxIn)) => ~HasCollision(fixedOut)

\* C14: for the document subgraph Analytics / Analytics[Analytics Service] /
\* end, the member line becomes Analytics_svc[Analytics Service], the label
\* kept, and the declaration line is returned unchanged.
AnalyticsScenario ==
  (fixedOut # << >> /\ syntaxIn = DocAnalytics)
    => fixedOut = JoinLines(<< << "s","u","b","g","r","a","p","h"," ","A","n","a","l","y","t","i","c","s" >>,
                               << "A","n","a","l","y","t","i","c","s","_","s","v","c","[","A","n","a","l","y","t","i","c","s"," ","S","e","r","v","i","c","e","]" >>,
                               << "e","n","d" >> >>)

\* the last position of the run of word characters that starts at p
RECURSIVE EndOfWord(_, _)
EndOfWord(line, p) ==
  IF p < Len(line) /\ IsWordChar(line[p + 1]) THEN EndOfWord(line, p + 1)
  ELSE p

\* line, from position p on, with every whole token that is one of names
\* followed by the suffix, and nothing else changed
RECURSIVE RenameTokens(_, _, _)
RenameTokens(line, p, names) ==
  IF p > Len(line) THEN << >>
  ELSE IF ~IsWordChar(line[p])
    THEN << line[p] >> \o RenameTokens(line, p + 1, names)
  ELSE LET q == EndOfWord(line, p)
           token == SubSeq(line, p, q)
       IN  (IF token \in names THEN token \o << "_","s","v","c" >> ELSE token)
             \o RenameTokens(line, q + 1, names)

\* C30: the output of fixSubgraphCycles has as many lines as its input,
\* every grouping-declaration line unchanged, and every other line equal to
\* the input line with each whole token that is a colliding name N replaced
\* by N_svc and every other token, those that merely contain N included,
\* left as it was.
RenameIsWholeToken ==
  fixedOut # << >> =>
    LET lines == SplitLines(syntaxIn)
        out == SplitLines(fixedOut)
        names == SeqRange(CollectCollisions(lines,
                            CollectSubgraphIds(lines, << >>), << >>))
    IN  /\ Len(out) = Len(lines)
        /\ \A k \in 1..Len(lines) :
             out[k] = IF IsSubgraphDecl(lines[k]) THEN lines[k]
                      ELSE RenameTokens(lines[k], 1, names)

\* C36: applied to its own output fixSubgraphCycles returns that output
\* unchanged, and a document that declares no grouping, or in which no
\* member identifier equals a declared name, is returned unchanged.
RepairIsIdempotent ==
  fixedOut # << >> =>
    /\ fixSubgraphCycles(fixedOut) = fixedOut
    /\ ( \/ CollectSubgraphIds(SplitLines(syntaxIn), << >>) = << >>
         \/ ~HasCollision(syntaxIn) ) => fixedOut = syntaxIn

(***************************************************************************)
(* Properties of the session controller.                                   *)
(***************************************************************************)
\* C15 (as the code has it): the error is populated only by the failure of
\* a final attempt or by app.onerror; no other event populates it.
ErrorOnlyFromFinalFailureOrOnError ==
  [][ (error' # error /\ error' # Null)
        => \/ \E i \in 1..Len(attempts) : ~attempts[i].isPartial /\ Fails(i)
           \/ \E msg \in AppMessages : OnError(msg) ]_vars

\* the error on display is the message app.onerror was given, over a
\* graphic whose render succeeded
ErrorFromOnError ==
  /\ error \in AppMessages
  /\ last.op = "render_ok"

\* C15 (as the spec has it): every event that populates the error is the
\* failure of a final attempt.
ErrorOnlyFromFinalFailure ==
  [][ (error' # error /\ error' # Null)
        => \E i \in 1..Len(attempts) : ~attempts[i].isPartial /\ Fails(i) ]_vars

\* C16: a final input replaces the DiagramState wholesale: text, theme and
\* title are those derived from the event, and the checkpoint identifier of
\* the previous invocation is not carried over.
FinalInputReplacesDiagramState ==
  [][ \A args \in ToolInputs, cfgOk \in BOOLEAN :
        OnToolInput(args, cfgOk)
          => diagramState' = [ mermaid |-> args.mermaid,
                               theme |-> InputTheme(args.theme, sysDark),
                               title |-> args.title,
                               checkpointId |-> Undefined ] ]_vars

\* the DiagramState is that of a second final input, without a checkpoint,
\* while the graphic on display is still that of the invocation before it
SecondInvocationState ==
  /\ diagramState.mermaid = DocFlow
  /\ diagramState.title = "T"
  /\ diagramState.checkpointId = Undefined
  /\ renderedSvg.text = fixSubgraphCycles(DocCycle)

\* C17: a result notification changes at most the checkpoint identifier:
\* theme, text and title, the graphic and the error are unchanged, whatever
\* theme the result echoes, and a result without a checkpoint identifier
\* changes nothing.
ResultChangesOnlyCheckpoint ==
  [][ \A r \in ToolResults :
        OnToolResult(r)
          => /\ diagramState'.mermaid = diagramState.mermaid
             /\ diagramState'.theme = diagramState.theme
             /\ diagramState'.title = diagramState.title
             /\ UNCHANGED << renderedSvg, error >>
             /\ r.checkpointId = Undefined => UNCHANGED vars ]_vars

\* a result has set the checkpoint of a diagram whose theme is the agent's
\* palette, which no result echoes
CheckpointSetUnderPalette ==
  /\ diagramState.checkpointId = "cp1"
  /\ diagramState.theme = "custom"
  /\ renderedSvg # NoSvg

\* C18: the theme follows the priority user selection > agent palette >
\* host dark mode > default: while the agent's palette is in effect and the
\* user has selected nothing, a host dark-mode change leaves the theme.
PaletteSurvivesDarkModeChange ==
  [][ (diagramState.theme = "custom" /\ ~userSelectedThemeRef
         /\ agentCustomTheme # Null /\ hostDark' # hostDark)
        => diagramState'.theme = "custom" ]_vars


(***************************************************************************)
(* Properties of the view transforms.                                      *)
(***************************************************************************)
\* the scale of the view the wheel acts on: the inline one, or the
\* fullscreen authoring view's
ActiveScale == IF displayMode = "inline" THEN panZoom.scale ELSE previewZoom

InBounds(x) == ~RLess(x, Rat(1, 10)) /\ ~RLess(Rat(5, 1), x)

\* C19: every wheel event multiplies the scale of the active view by 0.9
\* (wheel down) or by 1.1 (otherwise), and the result is brought into
\* [0.1, 5]: a product below 0.1 becomes 0.1, one above 5 becomes 5, and a
\* scale within the bounds stays within them.
WheelScalesWithinBounds ==
  [][\A deltaY \in WheelDeltas :
       HandleWheel(deltaY) =>
         LET product ==
               RMul(ActiveScale,
                    IF deltaY > 0 THEN Rat(9, 10) ELSE Rat(11, 10))
         IN  /\ InBounds(ActiveScale')
             /\ InBounds(product) => ActiveScale' = product
             /\ RLess(product, Rat(1, 10)) => ActiveScale' = Rat(1, 10)
             /\ RLess(Rat(5, 1), product) => ActiveScale' = Rat(5, 1)]_vars

\* one wheel event at scale 5 asked for 5.5 and the scale stayed at 5
WheelClampedAtUpperBound ==
  /\ last = [ op |-> "wheel", kind |-> "inline", note |-> "clamped" ]
  /\ displayMode = "inline"
  /\ panZoom.scale = Rat(5, 1)

\* C20: for a graphic of non-zero size, fit-to-view sets the scale to
\* min(vw / gw, vh / gh) * 0.92 and the translation to
\* ((vw - gw * scale) / 2, (vh - gh * scale) / 2), which leaves equal
\* margins on both sides; 800 x 600 in 400 x 300 gives 0.46 and (16, 12).
FitToViewCentres ==
  [][\A m \in Measures :
       (ApplyFitView(m) /\ renderedSvg # NoSvg /\ m.svgW # 0 /\ m.svgH # 0) =>
         LET byWidth == RDiv(Rat(m.vpW, 1), Rat(m.svgW, 1))
             byHeight == RDiv(Rat(m.vpH, 1), Rat(m.svgH, 1))
             smaller == IF RLess(byHeight, byWidth) THEN byHeight ELSE byWidth
         IN  /\ previewZoom' = RMul(smaller, Rat(23, 25))
             /\ RAdd(RAdd(previewPan'.x, RMul(Rat(m.svgW, 1), previewZoom')),
                     previewPan'.x) = Rat(m.vpW, 1)
             /\ RAdd(RAdd(previewPan'.y, RMul(Rat(m.svgH, 1), previewZoom')),
                     previewPan'.y) = Rat(m.vpH, 1)
             /\ (m.svgW = 800 /\ m.svgH = 600 /\ m.vpW = 400 /\ m.vpH = 300)
                  => /\ previewZoom' = Rat(23, 50)
                     /\ previewPan' = [ x |-> Rat(16, 1), y |-> Rat(12, 1) ]]_vars

\* the 800 x 600 graphic has been fitted into the 400 x 300 viewport
FittedScenario ==
  /\ displayMode = "fullscreen"
  /\ renderedSvg # NoSvg
  /\ previewZoom = Rat(23, 50)
  /\ previewPan = [ x |-> Rat(16, 1), y |-> Rat(12, 1) ]


\* C22: the transforms of the two presentations are tracked apart: a step
\* taken in the inline presentation, a drag or a wheel event among them,
\* leaves the fullscreen transform as it is, a step taken in the fullscreen
\* presentation leaves the inline transform as it is, a drag or a wheel event
\* changes nothing but the transform of the presentation it is made in, and
\* switching the presentation leaves the inline transform as it is.
TransformsAreIndependent ==
  [][/\ displayMode = "inline" => UNCHANGED << previewZoom, previewPan >>
     /\ displayMode = "fullscreen" => panZoom' = panZoom
     /\ displayMode' # displayMode => panZoom' = panZoom
     /\ \A e \in MousePoints :
          HandleMouseMove(e) =>
            LET dx == Rat(e.x - lastMousePosRef.x, 1)
                dy == Rat(e.y - lastMousePosRef.y, 1)
            IN  IF displayMode = "inline"
                  THEN /\ panZoom'.translateX = RAdd(panZoom.translateX, dx)
                       /\ panZoom'.translateY = RAdd(panZoom.translateY, dy)
                       /\ panZoom'.scale = panZoom.scale
                  ELSE /\ previewPan'.x = RAdd(previewPan.x, dx)
                       /\ previewPan'.y = RAdd(previewPan.y, dy)
                       /\ previewZoom' = previewZoom]_vars

\* the inline view has been dragged and the fullscreen view zoomed and
\* dragged the other way, each keeping its own transform
BothTransformsMoved ==
  /\ panZoom.translateX = Rat(30, 1)
  /\ panZoom.scale = Rat(1, 1)
  /\ previewPan.x = Rat(-30, 1)
  /\ previewZoom = Rat(11, 10)


(***************************************************************************)
(* Properties of the auto-fit.                                             *)
(***************************************************************************)
\* C21: the automatic fit of the fullscreen presentation is computed only
\* in a frame that, with the two frames before it, saw the viewport at one
\* and the same size, which is the size the fit is computed against; this
\* holds as well when the wait was started by the fallback timeout.  No other
\* step of the effect changes the fullscreen transform.
AutoFitWaitsForStableViewport ==
  [][((autoFit.live /\ ~autoFit.fitted /\ autoFit'.live /\ autoFit'.fitted)
        \/ previewZoom' # previewZoom \/ previewPan' # previewPan)
       => /\ autoFit.live /\ ~autoFit.fitted /\ autoFit'.fitted
          /\ Len(frameLog') = 3
          /\ \A k \in 1..3 : frameLog'[k] = viewport'
          /\ previewZoom' =
               RMul(RMin(RDiv(Rat(viewport'.w, 1), Rat(NaturalSize.w, 1)),
                         RDiv(Rat(viewport'.h, 1), Rat(NaturalSize.h, 1))),
                    Rat(23, 25))]_vars

\* the host has expanded the viewport in two stages and the fit has been
\* computed against the final size before the fallback timeout
FittedAfterStagedResize ==
  /\ autoFit.live
  /\ autoFit.fitted
  /\ autoFit.fallback
  /\ viewport = [ w |-> 800, h |-> 600 ]
  /\ frameLog[1] = [ w |-> 800, h |-> 600 ]
  /\ previewZoom = Rat(23, 25)


\* C23: a partial-input, final-input, result or teardown notification, and
\* the commit of a newly rendered graphic, leave the transforms of both
\* presentations as they are; where no gesture is made, the only steps that
\* change a transform are the fits of the auto-fit.
NotificationsKeepTransforms ==
  [][/\ (\/ Notifications
         \/ \E r \in ToolResults : OnToolResult(r)
         \/ \E i \in 1..Len(attempts) : RenderOk(i))
          => UNCHANGED << panZoom, previewZoom, previewPan >>
     /\ (panZoom' # panZoom \/ previewZoom' # previewZoom
           \/ previewPan' # previewPan)
          => /\ autoFit.live /\ ~autoFit.fitted /\ autoFit'.fitted
             /\ panZoom' = panZoom]_vars

\* a graphic has just been committed in the fullscreen presentation, the
\* auto-fit has started over, and both transforms are where the user left
\* them
CommittedUnderMovedTransforms ==
  /\ last.op = "render_ok"
  /\ displayMode = "fullscreen"
  /\ autoFit.live /\ ~autoFit.fitted
  /\ diagramState.checkpointId # Undefined
  /\ panZoom.scale = Rat(11, 10)
  /\ previewZoom = Rat(9, 10)
  /\ previewPan = [ x |-> Rat(-30, 1), y |-> Rat(20, 1) ]


(***************************************************************************)
(* Properties of the export.                                               *)
(***************************************************************************)
\* C24: an export that fails, by the rejection of the server call or by an
\* exception of the copy, writes to the error log and changes neither the
\* graphic, the error field nor the DiagramState; and once an export has
\* ended, by success or by failure (an error result of the server included),
\* the exporting indicator is false and those three are as they were.
FailedExportOnlyLogs ==
  [][/\ (\E outcome \in { "rejected", "copyThrows" } : ExportSettles(outcome))
          => /\ UNCHANGED << renderedSvg, error, diagramState >>
             /\ exportLog' = "console.error"
     /\ (\E outcome \in ExportOutcomes : ExportSettles(outcome))
          => /\ ~isExporting'
             /\ UNCHANGED << renderedSvg, error, diagramState >>]_vars

\* an export has failed while an error was on display over a graphic
ExportFailedUnderError ==
  /\ last = [ op |-> "export", kind |-> "rejected", note |-> "-" ]
  /\ exportLog = "console.error"
  /\ ~isExporting
  /\ error # Null
  /\ renderedSvg # NoSvg


(***************************************************************************)
(* Properties of the create_view tool.                                     *)
(***************************************************************************)
\* C26: called with a text that is empty or only whitespace, create_view
\* returns an error result without structured content, hence without a
\* checkpoint identifier; called with any other text it returns a result
\* that is no error and whose structured content has a checkpoint
\* identifier field of at most six characters, the given theme (the default
\* one when none is given) and the given title.
CreateViewRequiresText ==
  response # << >> =>
    LET args == request[1]
        result == response[1]
    IN  IF \A k \in 1..Len(args.mermaid) :
              args.mermaid[k] \in { " ", "\t", "\n", "\r" }
          THEN /\ result.isError
               /\ result.structuredContent = << >>
          ELSE /\ ~result.isError
               /\ Len(result.structuredContent) = 1
               /\ Len(result.structuredContent[1].checkpointId) <= 6
               /\ result.structuredContent[1].theme =
                    (IF args.theme = Undefined THEN "default" ELSE args.theme)
               /\ result.structuredContent[1].title = args.title

\* a text of whitespace only has been refused
WhitespaceRefused ==
  /\ response # << >>
  /\ request[1].mermaid = DocBlank
  /\ response[1].isError
  /\ response[1].structuredContent = << >>

(***************************************************************************)
(* Properties of panning.                                                  *)
(***************************************************************************)
\* the translation of the presentation on display
ActiveTranslation ==
  IF displayMode = "inline"
    THEN [ x |-> panZoom.translateX, y |-> panZoom.translateY ]
    ELSE previewPan

\* C31: while no drag is in progress (before a pointer-down, after a
\* pointer-up or a pointer-leave) no step of the pointer changes a transform;
\* a pointer move within a drag adds the distance from the last pointer
\* position to the translation of the presentation on display, whatever the
\* translation is by then, and leaves both scales and the translation of the
\* other presentation as they are.
PanAccumulatesWhileDragging ==
  [][/\ ~isPanningRef =>
          UNCHANGED << panZoom, previewZoom, previewPan >>
     /\ gestures' # gestures =>
          /\ isPanningRef
          /\ ActiveTranslation' =
               [ x |-> RAdd(ActiveTranslation.x,
                            Rat(lastMousePosRef'.x - lastMousePosRef.x, 1)),
                 y |-> RAdd(ActiveTranslation.y,
                            Rat(lastMousePosRef'.y - lastMousePosRef.y, 1)) ]
          /\ panZoom'.scale = panZoom.scale
          /\ previewZoom' = previewZoom
          /\ displayMode = "inline" => previewPan' = previewPan
          /\ displayMode = "fullscreen" => panZoom' = panZoom]_vars

\* three drags in the inline presentation have each added 30 to the
\* translation, and the drag has ended
DraggedThreeTimes ==
  /\ displayMode = "inline"
  /\ panZoom.translateX = Rat(90, 1)
  /\ panZoom.translateY = Rat(-60, 1)
  /\ ~isPanningRef
  /\ gestures = 3

(***************************************************************************)
(* Properties of the theme.                                                *)
(***************************************************************************)
\* C32: a change of the host's dark mode made while the user-selection mark
\* is set changes neither the DiagramState nor the in-flight flag, the
\* attempts or the engine's configuration; made while the mark is not set
\* and a document is held, it sets the theme to dark or light as the host
\* is; the mark is set only by a step that leaves the document as it is (the
\* user's theme selection) and is cleared only by a final-input event, which
\* closes the stream and makes the editor's text the document's.
UserThemeSurvivesHostChange ==
  [][/\ (hostDark' # hostDark /\ userSelectedThemeRef) =>
          /\ UNCHANGED << diagramState, renderingRef, attempts, engineTheme,
                          last, userSelectedThemeRef >>
     /\ (hostDark' # hostDark /\ ~userSelectedThemeRef
           /\ diagramState.mermaid # DocEmpty) =>
          diagramState'.theme = (IF hostDark' THEN "dark" ELSE "light")
     /\ (userSelectedThemeRef /\ ~userSelectedThemeRef') =>
          /\ hostDark' = hostDark
          /\ ~isStreaming'
          /\ editedMermaid' = diagramState'.mermaid
          /\ diagramState'.checkpointId = Undefined]_vars

\* the user has selected the light theme, the graphic on display is rendered
\* with it, no render is in flight, and the host is dark
UserLightUnderDarkHost ==
  /\ userSelectedThemeRef
  /\ hostDark
  /\ diagramState.theme = "light"
  /\ diagramState.mermaid = DocFlow
  /\ renderedSvg = Svg(DocFlow, "base/light")
  /\ attempts = << >>

(***************************************************************************)
(* Properties of the editor.                                               *)
(***************************************************************************)
\* C33: whenever rendering is idle, the text of the editor, unless it is
\* blank, has been submitted to a render attempt; attempts run one at a
\* time, so if the last attempt to end has committed its graphic, the
\* graphic on display is that of the editor's text.
IdlePreviewShowsLatestEdit ==
  ( /\ ~renderingRef
    /\ attempts = << >>
    /\ ~IsBlank(editedMermaid)
    /\ last.op = "render_ok" ) =>
      renderedSvg.text = fixSubgraphCycles(editedMermaid)

(***************************************************************************)
(* Properties of the runs of the auto-fit effect.                          *)
(***************************************************************************)
\* C34: a run of the auto-fit effect applies fit-to-view at most once, also
\* when the resize observer and the fallback timeout have each started a
\* loop of checks, and once it has applied it the run is marked fitted; no
\* check callback of a run that was cleaned up, by leaving the fullscreen
\* presentation or by a new graphic, applies fit-to-view.
FitAppliedAtMostOncePerRun ==
  /\ autoFit.fits <= 1
  /\ autoFit.fits = 1 => autoFit.fitted
  /\ ~autoFit.lateFit

\* a run that a new graphic started, after the cleanup of the run before it,
\* has started two loops of checks and has applied fit-to-view once
TwoLoopsOneFit ==
  /\ last.op = "render_ok"
  /\ autoFit.live
  /\ autoFit.started = 2
  /\ autoFit.fits = 1
  /\ autoFit.stale = { }

(***************************************************************************)
(* Properties of the scales.                                               *)
(***************************************************************************)
\* C35: in every reachable state the scale of the inline presentation and
\* the zoom of the fullscreen presentation both lie within [0.1, 5].
ScalesStayWithinBounds ==
  /\ InBounds(panZoom.scale)
  /\ InBounds(previewZoom)

(***************************************************************************)
(* Properties of the attempts on blank text.                               *)
(***************************************************************************)
\* C37: a final input or an edit whose text is empty or only whitespace
\* (the text the editor then holds) starts no attempt: the in-flight flag, the attempts, the engine's
\* configuration, the graphic, the error and the document's working
\* elements are as before, and nothing of an attempt is recorded.
BlankAttemptIsNoOp ==
  [][(/\ IsBlank(editedMermaid')
      /\ \/ \E args \in ToolInputs, cfgOk \in BOOLEAN :
              IsBlank(args.mermaid) /\ OnToolInput(args, cfgOk)
         \/ \E m \in Docs, cfgOk \in BOOLEAN :
              IsBlank(m) /\ HandleMermaidEdit(m, cfgOk))
       => UNCHANGED << renderingRef, attempts, engineTheme, renderedSvg,
                       error, dom, last >>]_vars

\* a final input of whitespace only has arrived, the graphic and the error
\* of the invocations before it are on display, and rendering is idle
BlankInputOverGraphicAndError ==
  /\ diagramState.mermaid = DocBlank
  /\ editedMermaid = DocBlank
  /\ renderedSvg # NoSvg
  /\ error # Null
  /\ ~renderingRef
  /\ attempts = << >>

(***************************************************************************)
(* Properties of the re-renders on a theme change.                         *)
(***************************************************************************)
\* the text handleThemeChange renders: editedMermaid || diagramState.mermaid
EditorText ==
  IF editedMermaid # DocEmpty THEN editedMermaid ELSE diagramState.mermaid

\* C38: the attempt that a change of the host's dark mode starts renders the
\* text the editor shows, the user's latest edit when there is one, which is
\* the text a theme selection by the user renders.
HostThemeChangeRendersEditorText ==
  [][(hostDark' # hostDark /\ Len(attempts') > Len(attempts))
       => attempts'[Len(attempts')].raw = EditorText]_vars

====
